---- MODULE Spec2Model ----
(***************************************************************************)
(* The enforcement core of fencio-dev/prism (management_plane):            *)
(*   - the semantic encoder (embed -> sparse projection -> normalize),     *)
(*   - the SQLite session/drift store (agent_sessions, enforce_calls),     *)
(*   - the POST /enforce pipeline that drives the store and the RPC,       *)
(*   - the /policies endpoints and their three stores,                     *)
(*   - the canonicalization logger and the telemetry listing.              *)
(*                                                                         *)
(* Granularity.  Every store function opens its own connection and runs    *)
(* its SELECT outside any transaction (python sqlite3 opens the implicit   *)
(* transaction only before INSERT/UPDATE/DELETE), so one step of the model *)
(* is one SQL statement together with the local computation and the clock  *)
(* read that follow it up to the next statement.  Requests interleave at   *)
(* that granularity (several workers share the database file).             *)
(*                                                                         *)
(* Numbers.  Vector components are fixed-point integers: a unit-norm slot  *)
(* has squared norm One = 5*5, so a dot product of two slots is a cosine   *)
(* in units of 1/25 and a drift is in units of 1/25 as well.               *)
(***************************************************************************)
EXTENDS Integers, Sequences, FiniteSets, TLC

(***************************************************************************)
(* Bounds of the model.                                                    *)
(***************************************************************************)
\* number of concurrent POST /enforce requests
NReq == 2
\* number of clock advances in a run
MaxTicks == 1
\* number of requests to /policies that may be in flight together
NPolicyReq == 3
\* number of threads that encode slots at the same time
NEncoders == 2
\* capacity of the embedding cache (lru_cache(maxsize=10000) in the code)
CacheMaxSize == 2

(***************************************************************************)
(* Program constants.                                                      *)
(***************************************************************************)
\* cleanup_expired: idle timeout, seconds
IdleTimeout == 1800
\* cleanup_expired: absolute maximum age, seconds
MaxAge == 86400


(***************************************************************************)
(* Small helpers.                                                          *)
(***************************************************************************)
Max(a, b) == IF a >= b THEN a ELSE b

RECURSIVE SumTo(_, _)
\* sum of f[1..n]
SumTo(f, n) == IF n = 0 THEN 0 ELSE f[n] + SumTo(f, n - 1)

\* np.dot of two equally long vectors
Dot(u, v) == SumTo([i \in 1..Len(u) |-> u[i] * v[i]], Len(u))

RECURSIVE ISqrtFrom(_, _)
ISqrtFrom(n, k) == IF (k + 1) * (k + 1) > n THEN k ELSE ISqrtFrom(n, k + 1)
\* floor of the square root
ISqrt(n) == ISqrtFrom(n, 0)

\* np.linalg.norm, in the integer units of the projected vector
Norm(v) == ISqrt(Dot(v, v))

\* Fixed point: the length of the vector <<3, 4>> stands for the norm 1.0 of a
\* unit slot, its square for the value 1.0 of a dot product or a drift.
UnitNorm == Norm(<<3, 4>>)
One == UnitNorm * UnitNorm

(***************************************************************************)
(* Semantic encoder (semantic_encoder.py).                                 *)
(***************************************************************************)
SlotNames == <<"action", "resource", "data", "risk">>

\* The text-embedding model: a black box text -> embedding, here a fixed
\* table over the slot texts the modelled intents produce (3 dimensions
\* stand for MODEL_DIM = 384).
encode_text_cached(text) ==
    CASE text = "action is read | actor_type is agent" -> <<3, 4, 0>>
      [] text = "action is delete | actor_type is agent" -> <<-6, 0, 8>>
      [] text = "action is write | actor_type is agent" -> <<4, 3, 0>>
      [] text = "resource_type is database | resource_location is unknown" -> <<0, 5, 0>>
      [] text = "resource_type is api | resource_location is cloud" -> <<0, -10, 0>>
      [] text = "sensitivity is internal | pii is False | volume is single" -> <<1, 2, 4>>
      [] text = "sensitivity is secret | pii is True | volume is bulk" -> <<-2, -2, 3>>
      [] text = "authn is required | authz is unknown" -> <<0, 0, 5>>
      [] text = "authn is none | authz is unknown" -> <<1, 1, -5>>
      [] OTHER -> <<0, 0, 0>>

\* MODEL_DIM = 384 and SLOT_DIM = 32 of the code, scaled down
MODEL_DIM == 3
SLOT_DIM == 2

\* the default projection_seeds of an encoder
projection_seeds == [slot_name \in {"action", "resource", "data", "risk"} |->
                        CASE slot_name = "action" -> 42
                          [] slot_name = "resource" -> 43
                          [] slot_name = "data" -> 44
                          [] slot_name = "risk" -> 45]

\* The sparse projection matrix RandomState(seed) generates: entries
\* +sqrt(s), 0, -sqrt(s), written in units of sqrt(s).  The generator is
\* seeded afresh on every call, so the matrix is a function of the seed
\* (and of the shape, which is always MODEL_DIM to SLOT_DIM here).
create_sparse_projection_matrix(input_dim, output_dim, seed) ==
    CASE seed = 42 -> << <<1, 0, 0>>, <<0, 1, -1>> >>
      [] seed = 43 -> << <<0, 1, 0>>, <<1, 0, 1>> >>
      [] seed = 44 -> << <<1, 1, 0>>, <<0, 0, 1>> >>
      [] seed = 45 -> << <<0, 0, 1>>, <<-1, 1, 0>> >>

\* The projection matrix of a slot, as every call for the slot returns it:
\* the matrix generated from the seed of the slot.
get_projection_matrix(slot_name) ==
    create_sparse_projection_matrix(MODEL_DIM, SLOT_DIM, projection_seeds[slot_name])

\* projected = projection @ embedding_384
project(projection, embedding) ==
    [i \in 1..Len(projection) |-> Dot(projection[i], embedding)]

\* a project_and_normalize that returns the projected vector as it is
normalize_skipped(projected) == projected

\* divide by the norm when it is positive, else return the vector unchanged
normalize(projected) ==
    LET norm == Norm(projected)
    IN  IF norm > 0
        THEN [i \in 1..Len(projected) |-> (projected[i] * UnitNorm) \div norm]
        ELSE projected

\* projection @ embedding, then divide by the norm when it is positive
project_and_normalize(embedding, slot_name) ==
    normalize(project(get_projection_matrix(slot_name), embedding))

encode_slot(text, slot_name) ==
    project_and_normalize(encode_text_cached(text), slot_name)

(***************************************************************************)
(* Intent encoder (app/services/intent_encoder.py, not among the sources:  *)
(* modelled from the specification, section 4.3).                          *)
(***************************************************************************)
\* a missing field is rendered as "unknown"
FieldText(v) == IF v = "" THEN "unknown" ELSE v

SlotText(event, slot_name) ==
    CASE slot_name = "action" ->
           "action is " \o FieldText(event.action)
             \o " | actor_type is " \o FieldText(event.actor_type)
      [] slot_name = "resource" ->
           "resource_type is " \o FieldText(event.resource_type)
             \o " | resource_location is " \o FieldText(event.resource_location)
      [] slot_name = "data" ->
           "sensitivity is " \o FieldText(event.sensitivity)
             \o " | pii is " \o FieldText(event.pii)
             \o " | volume is " \o FieldText(event.volume)
      [] slot_name = "risk" ->
           "authn is " \o FieldText(event.authn)
             \o " | authz is " \o FieldText(event.authz)

\* the four slot vectors concatenated in the order action, resource, data, risk
IntentEncode(event) ==
    encode_slot(SlotText(event, "action"), "action")
      \o encode_slot(SlotText(event, "resource"), "resource")
      \o encode_slot(SlotText(event, "data"), "data")
      \o encode_slot(SlotText(event, "risk"), "risk")

(***************************************************************************)
(* State.                                                                  *)
(***************************************************************************)
VARIABLES
    sessions,   \* table agent_sessions: agent_id -> row
    calls,      \* table enforce_calls: call_id -> row
    now,        \* the clock, time.time(), in seconds
    ticks,      \* how often the clock has advanced
    storeMode,  \* "up", "down" (every store operation raises), "flaky"
    req,        \* the in-flight POST /enforce requests
    cleaned,    \* the last cleanup_expired: what it returned, the timestamps of the rows it removed
    policies,   \* table policies_v2: <<tenant_id, policy_id>> -> row
    payloads,   \* anchor payloads, one collection per tenant: <<tenant_id, policy_id>> -> payload
    rules,      \* the policies whose rules the decision service holds
    preq,       \* the in-flight requests to /policies
    embeddingCache,      \* the lru_cache of encode_text_cached, least recently used first
    recency,             \* the texts the cache was asked for, least recently used first
    projectionMatrices,  \* _PROJECTION_MATRICES: cache_key -> matrix
    encoding,            \* the threads inside encode_slot
    buffer,       \* CanonicalizedPredictionLogger.buffer
    buffer_lock,  \* the task that holds buffer_lock, and the tasks waiting for it
    logfile,      \* the lines written to the current log file
    task,         \* the coroutines that use the logger
    listing       \* the last call of list_sessions: its arguments and its result

vars == <<sessions, calls, now, ticks, storeMode, req, cleaned, policies, payloads, rules, preq,
          embeddingCache, recency, projectionMatrices, encoding,
          buffer, buffer_lock, logfile, task, listing>>

\* the state of the semantic encoder
encoderVars == <<embeddingCache, recency, projectionMatrices, encoding>>

\* the state of the canonicalization logger
loggerVars == <<buffer, buffer_lock, logfile, task>>

\* the state of the services beside POST /enforce and /policies
serviceVars == <<encoderVars, loggerVars, listing>>

\* the state of the policy endpoints
policyVars == <<policies, payloads, rules, preq>>

\* the state of POST /enforce and of the session store
enforceVars == <<sessions, calls, now, ticks, storeMode, req, cleaned>>

Requests == 1..NReq

\* SQL NULL for a BLOB column, and the empty result of fetchone()
Null == << >>

(***************************************************************************)
(* Inputs: the intent events a client may post.                            *)
(***************************************************************************)
EvRead ==
    [id |-> "e1", agent_id |-> "A", op |-> "read", t |-> "db.query", ts |-> 1,
     action |-> "read", actor_type |-> "agent",
     resource_type |-> "database", resource_location |-> "",
     sensitivity |-> "internal", pii |-> "False", volume |-> "single",
     authn |-> "required", authz |-> ""]

\* S2 of the specification: EvRead with action = delete, nothing else changed
EvDelete == [EvRead EXCEPT !.id = "e2", !.op = "delete", !.action = "delete"]

\* an intent that differs from EvRead in all four slots
EvOther ==
    [id |-> "e3", agent_id |-> "A", op |-> "delete", t |-> "api.call", ts |-> 2,
     action |-> "delete", actor_type |-> "agent",
     resource_type |-> "api", resource_location |-> "cloud",
     sensitivity |-> "secret", pii |-> "True", volume |-> "bulk",
     authn |-> "none", authz |-> ""]

\* identity.agent_id empty; replays the event id of EvRead
EvAnon == [EvRead EXCEPT !.agent_id = "", !.op = "write", !.action = "write"]

Events == {EvRead, EvDelete, EvOther, EvAnon}

\* what the decision service may answer: (decision code, decision_name)
RpcResults ==
    { [decision |-> 1, decision_name |-> ""],
      [decision |-> 0, decision_name |-> ""],
      [decision |-> 2, decision_name |-> ""],
      [decision |-> 1, decision_name |-> "STEP_UP"] }

(***************************************************************************)
(* Session store (session_store.py): the effect of each SQL statement.     *)
(***************************************************************************)
\* the table without the row of key k
DeleteRow(table, k) == [x \in DOMAIN table \ {k} |-> table[x]]

\* the table with the row of key k set to row
PutRow(table, k, row) ==
    [x \in DOMAIN table \cup {k} |-> IF x = k THEN row ELSE table[x]]

\* write_call: SELECT action_history, call_count ... fetchone()
write_call_read(table, agent_id) ==
    IF agent_id \in DOMAIN table
    THEN << [action_history |-> table[agent_id].action_history,
             call_count |-> table[agent_id].call_count] >>
    ELSE Null

\* write_call: the INSERT (row was None) or the UPDATE (row was read), with
\* the values computed from what the SELECT returned.  An INSERT on an
\* existing primary key raises IntegrityError, which write_call swallows; an
\* UPDATE of a vanished row changes nothing.
write_call_commit(table, agent_id, row, new_entry, ts) ==
    IF row = Null
    THEN IF agent_id \in DOMAIN table
         THEN table
         ELSE PutRow(table, agent_id,
                     [action_history |-> <<new_entry>>,
                      call_count |-> 1,
                      last_seen_at |-> ts,
                      created_at |-> ts,
                      initial_vector |-> Null,
                      cumulative_drift |-> 0,
                      last_vector |-> Null])
    ELSE IF agent_id \in DOMAIN table
         THEN PutRow(table, agent_id,
                     [table[agent_id] EXCEPT
                        !.action_history = Append(row[1].action_history, new_entry),
                        !.call_count = row[1].call_count + 1,
                        !.last_seen_at = ts])
         ELSE table

\* the UPDATE without its "AND initial_vector IS NULL"
initialize_session_vector_unconditional(table, agent_id, blob) ==
    IF agent_id \in DOMAIN table
    THEN [x \in DOMAIN table |->
            IF x = agent_id THEN [table[x] EXCEPT !.initial_vector = blob] ELSE table[x]]
    ELSE table

\* initialize_session_vector:
\* UPDATE ... SET initial_vector = ? WHERE agent_id = ? AND initial_vector IS NULL
initialize_session_vector_commit(table, agent_id, blob) ==
    IF agent_id \in DOMAIN table /\ table[agent_id].initial_vector = Null
    THEN PutRow(table, agent_id, [table[agent_id] EXCEPT !.initial_vector = blob])
    ELSE table

\* the SELECT reading a missing baseline as the zero vector
compute_and_update_drift_read_zero(table, agent_id) ==
    IF agent_id \in DOMAIN table /\ table[agent_id].initial_vector # Null
    THEN table[agent_id].initial_vector
    ELSE [i \in 1..(Len(SlotNames) * Len(get_projection_matrix("action"))) |-> 0]

\* compute_and_update_drift: SELECT initial_vector ... fetchone(); Null when
\* there is no row or the column is NULL
compute_and_update_drift_read(table, agent_id) ==
    IF agent_id \in DOMAIN table THEN table[agent_id].initial_vector ELSE Null

\* the drift without the floor at 0
drift_value_no_floor(iv, cv) == One - Dot(iv, cv)

\* the drift as a distance without the floor at 0: |1 - dot|
drift_value_abs(iv, cv) ==
    IF One - Dot(iv, cv) >= 0 THEN One - Dot(iv, cv) ELSE Dot(iv, cv) - One

\* compute_and_update_drift: drift = max(0.0, 1.0 - np.dot(iv, cv))
drift_value(iv, cv) == Max(0, One - Dot(iv, cv))

\* the UPDATE storing the drift instead of adding it
compute_and_update_drift_overwrite(table, agent_id, drift, cv, ts) ==
    IF agent_id \in DOMAIN table
    THEN [x \in DOMAIN table |->
            IF x = agent_id
            THEN [table[x] EXCEPT !.cumulative_drift = drift,
                                  !.last_vector = cv,
                                  !.last_seen_at = ts]
            ELSE table[x]]
    ELSE table

\* compute_and_update_drift: UPDATE ... SET cumulative_drift = cumulative_drift + ?,
\* last_vector = ?, last_seen_at = ? WHERE agent_id = ?
compute_and_update_drift_commit(table, agent_id, drift, cv, ts) ==
    IF agent_id \in DOMAIN table
    THEN PutRow(table, agent_id,
                [table[agent_id] EXCEPT
                   !.cumulative_drift = @ + drift,
                   !.last_vector = cv,
                   !.last_seen_at = ts])
    ELSE table

\* an except branch that reports the largest cosine distance
drift_on_error_far == 2 * One

\* compute_and_update_drift: the value returned from the except branch
drift_on_error == 0

\* update_call_decision: index of the entry the loop rewrites (the first one
\* whose request_id matches, then break), 0 when none matches
MatchIndex(history, request_id) ==
    LET hits == {i \in 1..Len(history) : history[i].request_id = request_id}
    IN  IF hits = {} THEN 0 ELSE CHOOSE i \in hits : \A j \in hits : i <= j

\* the loop appending an entry with the decision instead of rewriting one
rewrite_decision_append(history, request_id, decision) ==
    LET k == MatchIndex(history, request_id)
    IN  IF k = 0 THEN history
        ELSE Append(history, [history[k] EXCEPT !.decision = decision])

\* update_call_decision: the history after the loop
rewrite_decision(history, request_id, decision) ==
    LET k == MatchIndex(history, request_id)
    IN  IF k = 0 THEN history
        ELSE [history EXCEPT ![k] = [@ EXCEPT !.decision = decision]]

\* update_call_decision: UPDATE agent_sessions SET action_history = ? WHERE agent_id = ?
update_call_decision_commit(table, agent_id, history) ==
    IF agent_id \in DOMAIN table
    THEN PutRow(table, agent_id, [table[agent_id] EXCEPT !.action_history = history])
    ELSE table

\* get_session_drift: cumulative_drift of the agent, 0.0 when there is no row
get_session_drift(table, agent_id) ==
    IF agent_id \in DOMAIN table THEN table[agent_id].cumulative_drift ELSE 0

\* INSERT OR IGNORE: a row already stored under the call_id is kept
insert_call_commit_ignore(table, call_id, row) ==
    IF call_id \in DOMAIN table THEN table ELSE PutRow(table, call_id, row)

\* insert_call: INSERT OR REPLACE INTO enforce_calls
insert_call_commit(table, call_id, row) == PutRow(table, call_id, row)

\* a DELETE with the idle cutoff alone
Expired_idle_only(table, ts) ==
    {a \in DOMAIN table : table[a].last_seen_at < ts - IdleTimeout}

\* cleanup_expired: the rows the DELETE removes at clock value ts
Expired(table, ts) ==
    {a \in DOMAIN table :
        \/ table[a].last_seen_at < ts - IdleTimeout
        \/ table[a].created_at < ts - MaxAge}

\* cleanup_expired: cursor.rowcount of the DELETE, which is returned
cleanup_expired_rowcount(table, ts) == Cardinality(Expired(table, ts))

\* cleanup_expired has not run
NeverCleaned == [deleted |-> 0, at |-> 0, removed |-> {}]

\* cleanup_expired: DELETE FROM agent_sessions WHERE last_seen_at < ? OR created_at < ?
cleanup_expired_commit(table, ts) ==
    [a \in DOMAIN table \ Expired(table, ts) |-> table[a]]

(***************************************************************************)
(* POST /enforce (enforcement_v2.py): the order of the pipeline.           *)
(***************************************************************************)
\* the pipeline without step 5: the baseline is never installed
AfterStep_no_baseline(step, agent_id) ==
    CASE step = "encode" -> "write_call"
      [] step = "write_call" ->
           IF agent_id # "" THEN "compute_and_update_drift" ELSE "enforce"
      [] step = "initialize_session_vector" -> "compute_and_update_drift"
      [] step = "compute_and_update_drift" -> "enforce"
      [] step = "enforce" -> "update_call_decision"
      [] step = "update_call_decision" -> "insert_call"
      [] step = "insert_call" -> "done"

\* the pipeline with the RPC issued before the drift is computed
AfterStep_rpc_first(step, agent_id) ==
    CASE step = "encode" -> "write_call"
      [] step = "write_call" ->
           IF agent_id # "" THEN "initialize_session_vector" ELSE "enforce"
      [] step = "initialize_session_vector" -> "enforce"
      [] step = "enforce" ->
           IF agent_id # "" THEN "compute_and_update_drift" ELSE "update_call_decision"
      [] step = "compute_and_update_drift" -> "update_call_decision"
      [] step = "update_call_decision" -> "insert_call"
      [] step = "insert_call" -> "done"

\* the pipeline returning after update_call_decision, without insert_call
AfterStep_skip_insert(step, agent_id) ==
    CASE step = "encode" -> "write_call"
      [] step = "write_call" ->
           IF agent_id # "" THEN "initialize_session_vector" ELSE "enforce"
      [] step = "initialize_session_vector" -> "compute_and_update_drift"
      [] step = "compute_and_update_drift" -> "enforce"
      [] step = "enforce" -> "update_call_decision"
      [] step = "update_call_decision" -> "done"
      [] step = "insert_call" -> "done"

\* the step enforce_v2 takes after `step` has returned
AfterStep(step, agent_id) ==
    CASE step = "encode" -> "write_call"
      [] step = "write_call" ->
           IF agent_id # "" THEN "initialize_session_vector" ELSE "enforce"
      [] step = "initialize_session_vector" -> "compute_and_update_drift"
      [] step = "compute_and_update_drift" -> "enforce"
      [] step = "enforce" -> "update_call_decision"
      [] step = "update_call_decision" -> "insert_call"
      [] step = "insert_call" -> "done"

\* step 8 taking the numeric code even when the remote named its decision
DecisionName_code_only(result) ==
    IF result.decision = 1 THEN "ALLOW" ELSE "DENY"

\* Step 8: the named decision if the remote gave one, else 1 -> ALLOW, other -> DENY
DecisionName(result) ==
    IF result.decision_name # "" THEN result.decision_name
    ELSE IF result.decision = 1 THEN "ALLOW" ELSE "DENY"

\* whether a store operation entered now raises inside its try block
StoreOutcomes ==
    CASE storeMode = "up" -> {"ok"}
      [] storeMode = "down" -> {"raise"}
      [] storeMode = "flaky" -> {"ok", "raise"}

IdleRequest ==
    [pc |-> "idle", event |-> EvRead, dry_run |-> FALSE, current_vector |-> Null,
     ts |-> 0, row |-> Null, iv |-> Null, drift |-> 0, history |-> Null,
     drift_score |-> 0, rpc |-> Null, result |-> Null,
     decision_name |-> "", status |-> 0, response |-> Null, steps |-> << >>]

\* the request id is a fresh uuid4: the request's own index
RequestId(r) == r

\* record that `step` has returned and move to the step after it
Return(q, step) ==
    [q EXCEPT !.pc = AfterStep(step, q.event.agent_id),
              !.steps = Append(@, step),
              !.row = Null, !.iv = Null, !.history = Null]

(***************************************************************************)
(* /policies (policies_v2.py, services/policies.py): the three stores.     *)
(***************************************************************************)
PolicyRequests == 1..NPolicyReq

\* the tenants of the callers, the policy ids and the bodies they send
Tenants == {"t1", "t2"}

PolicyIds == {"p1"}

Contents == {"v1", "v2"}

Operations == {"create_policy", "update_policy", "delete_policy", "clear_all_policies"}

\* request.scope: the scope a body carries; body "v1" names tenant "t1" in
\* it and body "v2" tenant "t2", whoever sends them
request_scope(content) == [tenantId |-> IF content = "v1" THEN "t1" ELSE "t2"]

\* _boundary_from_request: the boundary of a request body; scope.tenantId is
\* overwritten with the tenant of the caller
boundary_from_request(id, content, tenant_id, created_at, updated_at) ==
    LET scope == [request_scope(content) EXCEPT !.tenantId = tenant_id]
    IN  [id |-> id, content |-> content, scope_tenant |-> scope.tenantId,
         createdAt |-> created_at, updatedAt |-> updated_at]

\* fetch_policy_record: the row as a boundary, Null when there is none
fetch_policy_record(table, tenant_id, policy_id) ==
    IF <<tenant_id, policy_id>> \in DOMAIN table
    THEN << table[<<tenant_id, policy_id>>] >>
    ELSE Null

\* create_policy_record: the INSERT
create_policy_record_insert(table, boundary, tenant_id) ==
    PutRow(table, <<tenant_id, boundary.id>>, boundary)

\* update_policy_record: the UPDATE; created_at is not among the columns set
update_policy_record_update(table, boundary, tenant_id) ==
    IF <<tenant_id, boundary.id>> \in DOMAIN table
    THEN PutRow(table, <<tenant_id, boundary.id>>,
                [boundary EXCEPT !.createdAt = table[<<tenant_id, boundary.id>>].createdAt])
    ELSE table

\* a DELETE that removes nothing
delete_policy_record_kept(table, tenant_id, policy_id) == table

\* delete_policy_record: DELETE ... WHERE tenant_id = ? AND policy_id = ?
delete_policy_record(table, tenant_id, policy_id) ==
    DeleteRow(table, <<tenant_id, policy_id>>)

\* a DELETE without its WHERE clause: the rows of every tenant go
delete_all_policy_records_every_tenant(table, tenant_id) == [k \in {} |-> Null]

\* delete_all_policy_records: DELETE ... WHERE tenant_id = ?
delete_all_policy_records(table, tenant_id) ==
    [k \in {x \in DOMAIN table : x[1] # tenant_id} |-> table[k]]

\* _persist_anchor_payload: the payload and metadata built from the boundary
anchor_payload(boundary) ==
    [policy_id |-> boundary.id, content |-> boundary.content]

\* upsert_policy_payload: the payload stored under the policy id in the
\* collection of the tenant
upsert_policy_payload(store, tenant_id, policy_id, payload) ==
    PutRow(store, <<tenant_id, policy_id>>, payload)

\* a collection.delete that removes nothing
delete_policy_payload_kept(store, tenant_id, policy_id) == store

\* delete_policy_payload: collection.delete(ids=[policy_id])
delete_policy_payload(store, tenant_id, policy_id) ==
    DeleteRow(store, <<tenant_id, policy_id>>)

\* delete_tenant_collection: the collection of the tenant is dropped
delete_tenant_collection(store, tenant_id) ==
    [k \in {x \in DOMAIN store : x[1] # tenant_id} |-> store[k]]

\* what _persist_anchor_payload may run into: nothing, a missing
\* canonicalizer or encoder, or a raise in canonicalize, encode or upsert
PersistOutcomes == {"ok", "missing", "canonicalize", "encode", "upsert"}

\* what an RPC to the decision service may end in
RemoveOutcomes == {"success", "refused", "DataPlaneError", "Exception"}

\* a request: where it stands, what it was sent, what it answered; `remote`
\* is how its RPC to the decision service ended, `overlapped` whether another
\* request on the same policy was in flight with it
IdlePolicyRequest ==
    [pc |-> "idle", op |-> "create_policy", tenant |-> "t1", policy_id |-> "p1",
     id |-> "p1", content |-> "v1", ts |-> 0, existing |-> Null,
     status |-> 0, overlapped |-> FALSE, remote |-> "none"]

(***************************************************************************)
(* Semantic encoder: the embedding cache and the projection matrices       *)
(* (semantic_encoder.py), shared by the threads that encode.               *)
(***************************************************************************)
Encoders == 1..NEncoders

\* the texts the threads encode: more than the cache holds; the empty text
\* stands for a text whose embedding projects to the zero vector
EncodeTexts ==
    {"action is read | actor_type is agent",
     "authn is none | authz is unknown",
     ""}

\* the slots the threads encode for
EncodeSlots == {"action", "data", "risk"}

\* f"{slot_name}_{input_dim}_{output_dim}_{seed}"
cache_key(slot_name, input_dim, output_dim, seed) ==
    slot_name \o "_" \o ToString(input_dim) \o "_" \o ToString(output_dim)
              \o "_" \o ToString(seed)

\* the position of text in the cache, 0 when it is not cached
lru_index(cache, text) ==
    IF \E i \in 1..Len(cache) : cache[i].text = text
    THEN CHOOSE i \in 1..Len(cache) : cache[i].text = text
    ELSE 0

\* a sequence without its i-th element
RemoveAt(seq, i) == SubSeq(seq, 1, i - 1) \o SubSeq(seq, i + 1, Len(seq))

\* a cache whose hits leave the order of the entries alone (first in, first out)
lru_hit_keeps_order(cache, i) == cache

\* lru_cache, hit: the entry becomes the most recently used
lru_hit(cache, i) == Append(RemoveAt(cache, i), cache[i])

\* lru_cache, after a miss and the call of the function: a key some other
\* thread stored in the meantime is left alone; a full cache gives up its
\* least recently used entry for the new one; else the entry is added
lru_store(cache, text, embedding) ==
    IF lru_index(cache, text) # 0
    THEN cache
    ELSE IF Len(cache) >= CacheMaxSize
         THEN Append(Tail(cache), [text |-> text, embedding |-> embedding])
         ELSE Append(cache, [text |-> text, embedding |-> embedding])

\* the texts in the order of their last use by the cache, with text used now
Used(order, text) ==
    Append(SelectSeq(order, LAMBDA x : x # text), text)

\* a thread outside encode_slot
IdleEncoder ==
    [pc |-> "idle", text |-> "", slot_name |-> "action", hit |-> FALSE,
     generated |-> FALSE, embedding |-> Null, projection |-> Null, projected |-> Null, result |-> Null]

\* nothing cached, no matrix generated, no thread encoding
InitEncoder ==
    /\ embeddingCache = << >>
    /\ recency = << >>
    /\ projectionMatrices = [k \in {} |-> Null]
    /\ encoding = [t \in Encoders |-> IdleEncoder]

(***************************************************************************)
(* Canonicalization logger (canonicalization_logger.py): coroutines of one *)
(* event loop around the buffer and its asyncio.Lock.  A coroutine runs    *)
(* until it awaits something it has to wait for, so one step of the model  *)
(* goes from one such await to the next.                                   *)
(***************************************************************************)
\* buffer_size of the logger (1000 by default), scaled down
BufferSize == 2
\* calls of log_prediction by one caller
MaxPredictions == 2

\* the callers of log_prediction, the task of _flush_loop, the caller of stop
LogTasks == {"log1", "log2"}
FlushTask == "flush_loop"
StopTask == "stop"
Tasks == LogTasks \cup {FlushTask, StopTask}

\* asyncio.Lock(): not locked, no waiter
FreeLock == [holder |-> "", waiters |-> << >>]

\* asyncio.Lock.acquire returns at once: not locked, and nobody waits
CanAcquire(lock) == lock.holder = "" /\ lock.waiters = << >>

\* asyncio.Lock.acquire has to wait: the task joins the waiters
Enqueue(lock, t) == [lock EXCEPT !.waiters = Append(@, t)]

\* a waiter is woken: the lock was released and the task is first in line
Woken(lock, t) ==
    lock.holder = "" /\ lock.waiters # << >> /\ Head(lock.waiters) = t

\* the lock in the hands of t, who waits no more
Taken(lock, t) ==
    [holder |-> t, waiters |-> SelectSeq(lock.waiters, LAMBDA w : w # t)]

\* asyncio.Lock.release
Released(lock) == [lock EXCEPT !.holder = ""]

\* a coroutine before its call; predictions counts its calls of log_prediction
IdleTask == [pc |-> "idle", caller |-> "", predictions |-> 0]

\* the logger after __init__ and start(): empty buffer, free lock, the flush
\* task asleep
InitLogger ==
    /\ buffer = << >>
    /\ buffer_lock = FreeLock
    /\ logfile = << >>
    /\ task = [t \in Tasks |->
                 IF t = FlushTask THEN [IdleTask EXCEPT !.pc = "sleep"] ELSE IdleTask]

(***************************************************************************)
(* Telemetry (session_store.py list_sessions, endpoints/telemetry.py).     *)
(***************************************************************************)
\* the sessions a listing runs over, and when each was last seen
ListedAgents == {"A", "B", "C"}
LastSeenOf(a) == CASE a = "A" -> 30 [] a = "B" -> 20 [] a = "C" -> 10

\* the decisions of the last history entries; "None" is an empty history
ListedDecisions == {"ALLOW", "DENY", "None"}

\* a row of agent_sessions whose history ends with the decision d
ListedRow(a, d) ==
    [action_history |->
        IF d = "None" THEN << >>
        ELSE << [request_id |-> 0, action |-> "read", decision |-> d,
                 ts |-> LastSeenOf(a)] >>,
     call_count |-> IF d = "None" THEN 0 ELSE 1,
     last_seen_at |-> LastSeenOf(a),
     created_at |-> 0,
     initial_vector |-> Null,
     cumulative_drift |-> 0,
     last_vector |-> Null]

\* the tables a listing is run on
ListedTables ==
    {[a \in ListedAgents |-> ListedRow(a, d[a])] : d \in [ListedAgents -> ListedDecisions]}

\* the limits, offsets and decision filters of the queries
Limits == {1, 2, 3}
Offsets == {0, 1, 2}
DecisionFilters == {"ALLOW", "DENY"}

\* the encoder, the logger and the telemetry before their first call
InitServices ==
    /\ InitEncoder
    /\ InitLogger
    /\ listing = Null

\* no policy, no payload, no rules, no request
InitPolicies ==
    /\ policies = [k \in {} |-> Null]
    /\ payloads = [k \in {} |-> Null]
    /\ rules = {}
    /\ preq = [p \in PolicyRequests |-> IdlePolicyRequest]

\* empty tables, no request yet; the store is chosen healthy or out of reach
InitStore(modes) ==
    /\ sessions = [a \in {} |-> Null]
    /\ calls = [c \in {} |-> Null]
    /\ now = 0
    /\ ticks = 0
    /\ storeMode \in modes
    /\ req = [r \in Requests |-> IdleRequest]
    /\ cleaned = NeverCleaned
    /\ InitPolicies
    /\ InitServices

Init == InitStore({"up", "down"})

\* A database file that already holds a session: the row two earlier
\* requests for agent "A" leave behind (EvOther set the baseline, EvRead
\* drifted from it), their decisions written.
WarmRow ==
    [action_history |->
        << [request_id |-> -1, action |-> "delete", decision |-> "DENY", ts |-> 0],
           [request_id |-> 0, action |-> "read", decision |-> "ALLOW", ts |-> 0] >>,
     call_count |-> 2,
     last_seen_at |-> 0,
     created_at |-> 0,
     initial_vector |-> IntentEncode(EvOther),
     cumulative_drift |-> drift_value(IntentEncode(EvOther), IntentEncode(EvRead)),
     last_vector |-> IntentEncode(EvRead)]

InitWarm ==
    /\ sessions = [a \in {"A"} |-> WarmRow]
    /\ calls = [c \in {} |-> Null]
    /\ now = 0
    /\ ticks = 0
    /\ storeMode = "up"
    /\ req = [r \in Requests |-> IdleRequest]
    /\ cleaned = NeverCleaned
    /\ InitPolicies
    /\ InitServices

\* single store operations may fail and others succeed
InitFlaky == InitStore({"flaky"})

\* an enforce_v2 that records the call in agent_sessions before it encodes
\* the intent
enforce_begin_writes_first(r) ==
    /\ req[r].pc = "idle"
    /\ \A p \in Requests : p < r => req[p].pc # "idle"
    /\ \E event \in Events, enc \in {"ok", "missing", "raise"} :
         /\ req' = [req EXCEPT ![r] =
                      IF enc = "ok"
                      THEN [@ EXCEPT !.pc = AfterStep("encode", event.agent_id),
                                     !.event = event,
                                     !.current_vector = IntentEncode(event),
                                     !.ts = now,
                                     !.steps = <<"encode">>]
                      ELSE [@ EXCEPT !.pc = "failed",
                                     !.event = event,
                                     !.status = IF enc = "missing" THEN 500 ELSE 503]]
         /\ sessions' = IF enc = "ok"
                        THEN sessions
                        ELSE write_call_commit(sessions, event.agent_id,
                                               write_call_read(sessions, event.agent_id),
                                               [request_id |-> RequestId(r),
                                                action |-> event.op,
                                                decision |-> "pending",
                                                ts |-> now],
                                               now)
    /\ UNCHANGED <<calls, now, ticks, storeMode>>
    /\ UNCHANGED <<cleaned, policyVars, serviceVars>>

\* Steps 1-3, and the clock read that opens write_call (session_store.py:127).
\* The encoder may be missing (500) or raise (503).  Requests are
\* interchangeable, so they are numbered in the order they arrive.
enforce_begin(r) ==
    /\ req[r].pc = "idle"
    /\ \A p \in Requests : p < r => req[p].pc # "idle"
    /\ \E event \in Events, enc \in {"ok", "missing", "raise"} :
         req' = [req EXCEPT ![r] =
                   IF enc = "ok"
                   THEN [@ EXCEPT !.pc = AfterStep("encode", event.agent_id),
                                  !.event = event,
                                  !.current_vector = IntentEncode(event),
                                  !.ts = now,
                                  !.steps = <<"encode">>]
                   ELSE [@ EXCEPT !.pc = "failed",
                                  !.event = event,
                                  !.status = IF enc = "missing" THEN 500 ELSE 503]]
    /\ UNCHANGED <<sessions, calls, now, ticks, storeMode>>
    /\ UNCHANGED <<cleaned, policyVars, serviceVars>>

\* write_call: open the connection and SELECT the row
write_call_select(r) ==
    /\ req[r].pc = "write_call"
    /\ \E outcome \in StoreOutcomes :
         req' = [req EXCEPT ![r] =
                   IF outcome = "raise"
                   THEN Return(@, "write_call")
                   ELSE [@ EXCEPT !.pc = "write_call_write",
                                  !.row = write_call_read(sessions, req[r].event.agent_id)]]
    /\ UNCHANGED <<sessions, calls, now, ticks, storeMode>>
    /\ UNCHANGED <<cleaned, policyVars, serviceVars>>

\* write_call: INSERT or UPDATE, commit, return
write_call_write(r) ==
    /\ req[r].pc = "write_call_write"
    /\ sessions' = write_call_commit(sessions, req[r].event.agent_id, req[r].row,
                                     [request_id |-> RequestId(r),
                                      action |-> req[r].event.op,
                                      decision |-> "pending",
                                      ts |-> req[r].ts],
                                     req[r].ts)
    /\ req' = [req EXCEPT ![r] = Return(@, "write_call")]
    /\ UNCHANGED <<calls, now, ticks, storeMode>>
    /\ UNCHANGED <<cleaned, policyVars, serviceVars>>

\* initialize_session_vector: the conditional UPDATE, commit, return
initialize_session_vector(r) ==
    /\ req[r].pc = "initialize_session_vector"
    /\ \E outcome \in StoreOutcomes :
         /\ sessions' = IF outcome = "raise" THEN sessions
                        ELSE initialize_session_vector_commit(
                                 sessions, req[r].event.agent_id, req[r].current_vector)
         /\ req' = [req EXCEPT ![r] = Return(@, "initialize_session_vector")]
    /\ UNCHANGED <<calls, now, ticks, storeMode>>
    /\ UNCHANGED <<cleaned, policyVars, serviceVars>>

\* compute_and_update_drift: SELECT initial_vector; return 0.0 when it is
\* missing, else compute the drift and read the clock
compute_and_update_drift_select(r) ==
    /\ req[r].pc = "compute_and_update_drift"
    /\ \E outcome \in StoreOutcomes :
         LET iv == compute_and_update_drift_read(sessions, req[r].event.agent_id)
         IN  req' = [req EXCEPT ![r] =
                       IF outcome = "raise"
                       THEN [Return(@, "compute_and_update_drift")
                               EXCEPT !.drift_score = drift_on_error]
                       ELSE IF iv = Null
                       THEN [Return(@, "compute_and_update_drift")
                               EXCEPT !.drift_score = 0]
                       ELSE [@ EXCEPT !.pc = "compute_and_update_drift_write",
                                      !.iv = iv,
                                      !.drift = drift_value(iv, req[r].current_vector),
                                      !.ts = now]]
    /\ UNCHANGED <<sessions, calls, now, ticks, storeMode>>
    /\ UNCHANGED <<cleaned, policyVars, serviceVars>>

\* compute_and_update_drift: the UPDATE, commit, return drift
compute_and_update_drift_write(r) ==
    /\ req[r].pc = "compute_and_update_drift_write"
    /\ sessions' = compute_and_update_drift_commit(
                       sessions, req[r].event.agent_id, req[r].drift,
                       req[r].current_vector, req[r].ts)
    /\ req' = [req EXCEPT ![r] =
                 [Return(@, "compute_and_update_drift")
                    EXCEPT !.drift_score = req[r].drift]]
    /\ UNCHANGED <<calls, now, ticks, storeMode>>
    /\ UNCHANGED <<cleaned, policyVars, serviceVars>>

\* an enforce_v2 that undoes the session writes of the request when the RPC
\* fails
enforce_rpc_rolls_back(r) ==
    /\ req[r].pc = "enforce"
    /\ LET sent == [req[r] EXCEPT !.rpc = << [current_vector |-> req[r].current_vector,
                                              request_id |-> RequestId(r),
                                              drift_score |-> req[r].drift_score,
                                              agent_id |-> req[r].event.agent_id] >>]
       IN  \/ /\ \E result \in RpcResults :
                   req' = [req EXCEPT ![r] =
                             [Return(sent, "enforce")
                                EXCEPT !.result = <<result>>,
                                       !.decision_name = DecisionName(result)]]
              /\ UNCHANGED sessions
           \/ /\ \E error \in {"DataPlaneError", "Exception"} :
                   req' = [req EXCEPT ![r] =
                             [sent EXCEPT !.pc = "failed",
                                          !.steps = Append(@, "enforce"),
                                          !.status = IF error = "DataPlaneError"
                                                     THEN 502 ELSE 500]]
              /\ sessions' = DeleteRow(sessions, req[r].event.agent_id)
    /\ UNCHANGED <<calls, now, ticks, storeMode>>
    /\ UNCHANGED <<cleaned, policyVars, serviceVars>>

\* Step 7: the Enforce RPC with (event, current_vector, request_id,
\* drift_score, agent_id); then step 8.  A DataPlaneError gives 502, any
\* other exception 500.
enforce_rpc(r) ==
    /\ req[r].pc = "enforce"
    /\ LET sent == [req[r] EXCEPT !.rpc = << [current_vector |-> req[r].current_vector,
                                              request_id |-> RequestId(r),
                                              drift_score |-> req[r].drift_score,
                                              agent_id |-> req[r].event.agent_id] >>]
       IN  \/ \E result \in RpcResults :
                req' = [req EXCEPT ![r] =
                          [Return(sent, "enforce")
                             EXCEPT !.result = <<result>>,
                                    !.decision_name = DecisionName(result)]]
           \/ \E error \in {"DataPlaneError", "Exception"} :
                req' = [req EXCEPT ![r] =
                          [sent EXCEPT !.pc = "failed",
                                       !.steps = Append(@, "enforce"),
                                       !.status = IF error = "DataPlaneError"
                                                  THEN 502 ELSE 500]]
    /\ UNCHANGED <<sessions, calls, now, ticks, storeMode>>
    /\ UNCHANGED <<cleaned, policyVars, serviceVars>>

\* update_call_decision: return at once for an empty agent_id; else SELECT
\* the history, return when there is no row, else rewrite the entry
update_call_decision_select(r) ==
    /\ req[r].pc = "update_call_decision"
    /\ \E outcome \in (IF req[r].event.agent_id = "" THEN {"ok"} ELSE StoreOutcomes) :
         LET agent_id == req[r].event.agent_id
         IN  req' = [req EXCEPT ![r] =
                       IF agent_id = "" \/ outcome = "raise" \/ agent_id \notin DOMAIN sessions
                       THEN Return(@, "update_call_decision")
                       ELSE [@ EXCEPT !.pc = "update_call_decision_write",
                                      !.history = rewrite_decision(
                                          sessions[agent_id].action_history,
                                          RequestId(r), req[r].decision_name)]]
    /\ UNCHANGED <<sessions, calls, now, ticks, storeMode>>
    /\ UNCHANGED <<cleaned, policyVars, serviceVars>>

\* update_call_decision: the UPDATE of action_history, commit, return
update_call_decision_write(r) ==
    /\ req[r].pc = "update_call_decision_write"
    /\ sessions' = update_call_decision_commit(
                       sessions, req[r].event.agent_id, req[r].history)
    /\ req' = [req EXCEPT ![r] = Return(@, "update_call_decision")]
    /\ UNCHANGED <<calls, now, ticks, storeMode>>
    /\ UNCHANGED <<cleaned, policyVars, serviceVars>>

\* Step 9: the response as built before insert_call
EnforcementResponse(q) ==
    [decision |-> q.decision_name, drift_score |-> q.drift_score]

\* an insert_call step whose response never blocks a dry run
insert_call_dry_run_allows(r) ==
    /\ req[r].pc = "insert_call"
    /\ \E outcome \in StoreOutcomes, dry_run \in BOOLEAN :
         LET q == [req[r] EXCEPT !.dry_run = dry_run,
                                 !.decision_name = IF dry_run THEN "ALLOW" ELSE @]
             row == [call_id |-> q.event.id,
                     agent_id |-> q.event.agent_id,
                     ts_ms |-> q.event.ts * 1000,
                     decision |-> q.decision_name,
                     op |-> q.event.op,
                     t |-> q.event.t,
                     enforcement_result |-> EnforcementResponse(q),
                     intent_event |-> q.event,
                     is_dry_run |-> IF q.dry_run THEN 1 ELSE 0]
         IN  /\ calls' = IF outcome = "raise" THEN calls
                         ELSE insert_call_commit(calls, q.event.id, row)
             /\ req' = [req EXCEPT ![r] =
                          [Return(q, "insert_call")
                             EXCEPT !.status = 200,
                                    !.response = <<EnforcementResponse(q)>>]]
    /\ UNCHANGED <<sessions, now, ticks, storeMode>>
    /\ UNCHANGED <<cleaned, policyVars, serviceVars>>

\* Steps 9-11: build the response, insert_call, return the response.  The
\* query parameter dry_run is read here and nowhere else, so it is drawn here.
insert_call(r) ==
    /\ req[r].pc = "insert_call"
    /\ \E outcome \in StoreOutcomes, dry_run \in BOOLEAN :
         LET q == [req[r] EXCEPT !.dry_run = dry_run]
             row == [call_id |-> q.event.id,
                     agent_id |-> q.event.agent_id,
                     ts_ms |-> q.event.ts * 1000,
                     decision |-> q.decision_name,
                     op |-> q.event.op,
                     t |-> q.event.t,
                     enforcement_result |-> EnforcementResponse(q),
                     intent_event |-> q.event,
                     is_dry_run |-> IF q.dry_run THEN 1 ELSE 0]
         IN  /\ calls' = IF outcome = "raise" THEN calls
                         ELSE insert_call_commit(calls, q.event.id, row)
             /\ req' = [req EXCEPT ![r] =
                          [Return(q, "insert_call")
                             EXCEPT !.status = 200,
                                    !.response = <<EnforcementResponse(q)>>]]
    /\ UNCHANGED <<sessions, now, ticks, storeMode>>
    /\ UNCHANGED <<cleaned, policyVars, serviceVars>>

\* the clock advances
Tick ==
    /\ ticks < MaxTicks
    /\ \E d \in {IdleTimeout + 1, MaxAge + 1} : now' = now + d
    /\ ticks' = ticks + 1
    /\ UNCHANGED <<sessions, calls, storeMode, req>>
    /\ UNCHANGED <<cleaned, policyVars, serviceVars>>

\* cleanup_expired, run by an external scheduler
cleanup_expired ==
    /\ storeMode = "up"
    /\ Expired(sessions, now) # {}
    /\ sessions' = cleanup_expired_commit(sessions, now)
    /\ cleaned' = [deleted |-> cleanup_expired_rowcount(sessions, now),
                   at |-> now,
                   removed |-> {[created_at |-> sessions[a].created_at,
                                 last_seen_at |-> sessions[a].last_seen_at] :
                                   a \in Expired(sessions, now)}]
    /\ UNCHANGED <<calls, now, ticks, storeMode, req>>
    /\ UNCHANGED <<policyVars, serviceVars>>

\* one step of request r
enforce_v2(r) ==
    \/ enforce_begin(r)
    \/ write_call_select(r)
    \/ write_call_write(r)
    \/ initialize_session_vector(r)
    \/ compute_and_update_drift_select(r)
    \/ compute_and_update_drift_write(r)
    \/ enforce_rpc(r)
    \/ update_call_decision_select(r)
    \/ update_call_decision_write(r)
    \/ insert_call(r)

Enforce == \E r \in Requests : enforce_v2(r)

\* the requests alone, on a clock that stands still
Next == Enforce

Spec == Init /\ [][Next]_vars

\* the requests, the clock and the expiry of sessions
NextExpiry == Enforce \/ Tick \/ cleanup_expired

SpecExpiry == InitStore({"up"}) /\ [][NextExpiry]_vars

\* the requests on a database that already holds a session
SpecWarm == InitWarm /\ [][Next]_vars

\* the same database while time passes and cleanup_expired runs
SpecWarmExpiry == InitWarm /\ [][NextExpiry]_vars

\* the requests over a store whose operations fail one by one
SpecFlaky == InitFlaky /\ [][Next]_vars

(***************************************************************************)
(* /policies: the handlers, one action per store call or RPC.              *)
(***************************************************************************)
\* the key in the three stores a request works on (for clear_all_policies,
\* every key of the tenant)
Touches(q, tenant_id, policy_id) ==
    /\ q.tenant = tenant_id
    /\ q.op = "clear_all_policies" \/ q.policy_id = policy_id

\* requests p and q work on a common key
Conflict(q1, q2) ==
    /\ q1.tenant = q2.tenant
    /\ \/ q1.op = "clear_all_policies"
       \/ q2.op = "clear_all_policies"
       \/ q1.policy_id = q2.policy_id

InFlight(q) == q.pc \notin {"idle", "done"}

\* the request has ended with this status code
Finish(q, status) == [q EXCEPT !.pc = "done", !.status = status, !.existing = Null]

\* A request arrives: the handler is entered with the tenant of the caller,
\* the policy id of the path and the body.  time.time() is read by create
\* (policies_v2.py:114) and by update after its fetch; requests are
\* interchangeable, so they are numbered in the order they arrive.
policy_begin(p) ==
    /\ preq[p].pc = "idle"
    /\ \A o \in PolicyRequests : o < p => preq[o].pc # "idle"
    /\ \E op \in Operations, tenant \in Tenants, policy_id \in PolicyIds,
          content \in Contents :
         LET first == CASE op = "create_policy" -> "create_policy_record_select"
                        [] op = "update_policy" -> "update_fetch"
                        [] op = "delete_policy" -> "delete_fetch"
                        [] op = "clear_all_policies" -> "remove_agent_rules"
             q == [IdlePolicyRequest EXCEPT
                     !.pc = first, !.op = op, !.tenant = tenant,
                     !.policy_id = policy_id, !.id = policy_id,
                     !.content = IF op \in {"create_policy", "update_policy"}
                                 THEN content ELSE "v1",
                     !.ts = now]
             met == {o \in PolicyRequests \ {p} :
                        InFlight(preq[o]) /\ Conflict(preq[o], q)}
         IN  /\ op \in {"delete_policy", "clear_all_policies"} => content = "v1"
             /\ preq' = [o \in PolicyRequests |->
                           IF o = p THEN [q EXCEPT !.overlapped = (met # {})]
                           ELSE IF o \in met THEN [preq[o] EXCEPT !.overlapped = TRUE]
                           ELSE preq[o]]
    /\ UNCHANGED <<policies, payloads, rules>>
    /\ UNCHANGED <<enforceVars, serviceVars>>

\* create_policy with both calls under the one try: the ValueError of an
\* existing row also runs the compensating delete
create_policy_record_select_compensates(p) ==
    /\ preq[p].pc = "create_policy_record_select"
    /\ preq' = [preq EXCEPT ![p] =
                  IF fetch_policy_record(policies, preq[p].tenant, preq[p].id) # Null
                  THEN [@ EXCEPT !.pc = "compensate", !.status = 409]
                  ELSE [@ EXCEPT !.pc = "create_policy_record_insert"]]
    /\ UNCHANGED <<policies, payloads, rules>>
    /\ UNCHANGED <<enforceVars, serviceVars>>

\* create_policy_record: SELECT 1 ...; an existing row gives ValueError, 409
create_policy_record_select(p) ==
    /\ preq[p].pc = "create_policy_record_select"
    /\ preq' = [preq EXCEPT ![p] =
                  IF fetch_policy_record(policies, preq[p].tenant, preq[p].id) # Null
                  THEN Finish(@, 409)
                  ELSE [@ EXCEPT !.pc = "create_policy_record_insert"]]
    /\ UNCHANGED <<policies, payloads, rules>>
    /\ UNCHANGED <<enforceVars, serviceVars>>

\* create_policy_record: INSERT, commit.  On a key inserted since the SELECT
\* the INSERT raises sqlite3.IntegrityError, which create_policy does not
\* catch: the request ends with 500.
create_policy_record_write(p) ==
    /\ preq[p].pc = "create_policy_record_insert"
    /\ LET q == preq[p]
           boundary == boundary_from_request(q.id, q.content, q.tenant, q.ts, q.ts)
       IN  IF <<q.tenant, q.id>> \in DOMAIN policies
           THEN /\ preq' = [preq EXCEPT ![p] = Finish(@, 500)]
                /\ UNCHANGED policies
           ELSE /\ policies' = create_policy_record_insert(policies, boundary, q.tenant)
                /\ preq' = [preq EXCEPT ![p].pc = "persist_anchor_payload"]
    /\ UNCHANGED <<payloads, rules>>
    /\ UNCHANGED <<enforceVars, serviceVars>>

\* the decision service holds the rules of a policy once its payload is stored
install_rules(installed, tenant_id, policy_id) == installed \cup {<<tenant_id, policy_id>>}

\* create_policy: _persist_anchor_payload; an HTTPException leads to the
\* compensating delete
create_persist_anchor_payload(p) ==
    /\ preq[p].pc = "persist_anchor_payload"
    /\ \E outcome \in PersistOutcomes :
         LET q == preq[p]
             boundary == boundary_from_request(q.id, q.content, q.tenant, q.ts, q.ts)
         IN  IF outcome = "ok"
             THEN /\ payloads' = upsert_policy_payload(payloads, q.tenant, boundary.id,
                                                        anchor_payload(boundary))
                  /\ rules' = install_rules(rules, q.tenant, boundary.id)
                  /\ preq' = [preq EXCEPT ![p] = Finish(@, 201)]
             ELSE /\ preq' = [preq EXCEPT ![p] = [@ EXCEPT !.pc = "compensate", !.status = 500]]
                  /\ UNCHANGED <<payloads, rules>>
    /\ UNCHANGED policies
    /\ UNCHANGED <<enforceVars, serviceVars>>

\* create_policy: except HTTPException: delete_policy_record(...); raise
create_compensate(p) ==
    /\ preq[p].pc = "compensate"
    /\ policies' = delete_policy_record(policies, preq[p].tenant, preq[p].id)
    /\ preq' = [preq EXCEPT ![p] = Finish(@, 500)]
    /\ UNCHANGED <<payloads, rules>>
    /\ UNCHANGED <<enforceVars, serviceVars>>

\* update_policy: fetch_policy_record; 404 without a row; the clock is read
\* and the body id is compared with the id of the path (400)
update_fetch(p) ==
    /\ preq[p].pc = "update_fetch"
    /\ LET existing == fetch_policy_record(policies, preq[p].tenant, preq[p].policy_id)
       IN  preq' = [preq EXCEPT ![p] =
                      IF existing = Null THEN Finish(@, 404)
                      ELSE IF preq[p].id # preq[p].policy_id THEN Finish(@, 400)
                      ELSE [@ EXCEPT !.pc = "update_policy_record_select",
                                     !.existing = existing,
                                     !.ts = now]]
    /\ UNCHANGED <<policies, payloads, rules>>
    /\ UNCHANGED <<enforceVars, serviceVars>>

\* update_policy_record: SELECT 1 ...; no row gives ValueError, 404
update_policy_record_select(p) ==
    /\ preq[p].pc = "update_policy_record_select"
    /\ preq' = [preq EXCEPT ![p] =
                  IF fetch_policy_record(policies, preq[p].tenant, preq[p].id) = Null
                  THEN Finish(@, 404)
                  ELSE [@ EXCEPT !.pc = "update_policy_record_update"]]
    /\ UNCHANGED <<policies, payloads, rules>>
    /\ UNCHANGED <<enforceVars, serviceVars>>

\* update_policy_record: UPDATE, commit
update_policy_record_write(p) ==
    /\ preq[p].pc = "update_policy_record_update"
    /\ LET q == preq[p]
           boundary == boundary_from_request(q.id, q.content, q.tenant,
                                             q.existing[1].createdAt, q.ts)
       IN  policies' = update_policy_record_update(policies, boundary, q.tenant)
    /\ preq' = [preq EXCEPT ![p].pc = "update_persist_anchor_payload"]
    /\ UNCHANGED <<payloads, rules>>
    /\ UNCHANGED <<enforceVars, serviceVars>>

\* update_policy: _persist_anchor_payload; an HTTPException is surfaced as it is
update_persist_anchor_payload(p) ==
    /\ preq[p].pc = "update_persist_anchor_payload"
    /\ \E outcome \in PersistOutcomes :
         LET q == preq[p]
             boundary == boundary_from_request(q.id, q.content, q.tenant,
                                               q.existing[1].createdAt, q.ts)
         IN  IF outcome = "ok"
             THEN /\ payloads' = upsert_policy_payload(payloads, q.tenant, boundary.id,
                                                        anchor_payload(boundary))
                  /\ rules' = install_rules(rules, q.tenant, boundary.id)
                  /\ preq' = [preq EXCEPT ![p] = Finish(@, 200)]
             ELSE /\ preq' = [preq EXCEPT ![p] = Finish(@, 500)]
                  /\ UNCHANGED <<payloads, rules>>
    /\ UNCHANGED policies
    /\ UNCHANGED <<enforceVars, serviceVars>>

\* RemovePolicy with success=true: the decision service drops the rules of the policy
remove_policy(installed, policy_id, tenant_id) == installed \ {<<tenant_id, policy_id>>}

\* RemoveAgentRules: the decision service drops every rule of the tenant
remove_agent_rules(installed, tenant_id) == {k \in installed : k[1] # tenant_id}

\* delete_policy: fetch_policy_record; 404 without a row
delete_fetch(p) ==
    /\ preq[p].pc = "delete_fetch"
    /\ preq' = [preq EXCEPT ![p] =
                  IF fetch_policy_record(policies, preq[p].tenant, preq[p].policy_id) = Null
                  THEN Finish(@, 404)
                  ELSE [@ EXCEPT !.pc = "remove_policy"]]
    /\ UNCHANGED <<policies, payloads, rules>>
    /\ UNCHANGED <<enforceVars, serviceVars>>

\* delete_policy without the check of the success flag: a refused removal
\* goes on to the local deletes
delete_remove_policy_unchecked(p) ==
    /\ preq[p].pc = "remove_policy"
    /\ \E outcome \in RemoveOutcomes :
         IF outcome \in {"success", "refused"}
         THEN /\ rules' = IF outcome = "success"
                          THEN remove_policy(rules, preq[p].policy_id, preq[p].tenant)
                          ELSE rules
              /\ preq' = [preq EXCEPT ![p] =
                            [@ EXCEPT !.pc = "delete_policy_record", !.remote = outcome]]
         ELSE /\ preq' = [preq EXCEPT ![p] =
                            Finish([@ EXCEPT !.remote = outcome],
                                   IF outcome = "Exception" THEN 500 ELSE 502)]
              /\ UNCHANGED rules
    /\ UNCHANGED <<policies, payloads>>
    /\ UNCHANGED <<enforceVars, serviceVars>>

\* delete_policy: client.remove_policy; DataPlaneError gives 502, another
\* exception 500, success=false 502
delete_remove_policy(p) ==
    /\ preq[p].pc = "remove_policy"
    /\ \E outcome \in RemoveOutcomes :
         IF outcome = "success"
         THEN /\ rules' = remove_policy(rules, preq[p].policy_id, preq[p].tenant)
              /\ preq' = [preq EXCEPT ![p] =
                            [@ EXCEPT !.pc = "delete_policy_record", !.remote = outcome]]
         ELSE /\ preq' = [preq EXCEPT ![p] =
                            Finish([@ EXCEPT !.remote = outcome],
                                   IF outcome = "Exception" THEN 500 ELSE 502)]
              /\ UNCHANGED rules
    /\ UNCHANGED <<policies, payloads>>
    /\ UNCHANGED <<enforceVars, serviceVars>>

\* delete_policy: delete_policy_record; 404 when no row was deleted
delete_record(p) ==
    /\ preq[p].pc = "delete_policy_record"
    /\ policies' = delete_policy_record(policies, preq[p].tenant, preq[p].policy_id)
    /\ preq' = [preq EXCEPT ![p] =
                  IF <<preq[p].tenant, preq[p].policy_id>> \in DOMAIN policies
                  THEN [@ EXCEPT !.pc = "delete_policy_payload"]
                  ELSE Finish(@, 404)]
    /\ UNCHANGED <<payloads, rules>>
    /\ UNCHANGED <<enforceVars, serviceVars>>

\* delete_policy: delete_policy_payload; an exception gives 500, else the
\* PolicyDeleteResponse with success=True
delete_payload(p) ==
    /\ preq[p].pc = "delete_policy_payload"
    /\ \E outcome \in {"ok", "raise"} :
         IF outcome = "ok"
         THEN /\ payloads' = delete_policy_payload(payloads, preq[p].tenant, preq[p].policy_id)
              /\ preq' = [preq EXCEPT ![p] = Finish(@, 200)]
         ELSE /\ preq' = [preq EXCEPT ![p] = Finish(@, 500)]
              /\ UNCHANGED payloads
    /\ UNCHANGED <<policies, rules>>
    /\ UNCHANGED <<enforceVars, serviceVars>>

\* clear_all_policies: client.remove_agent_rules; DataPlaneError gives 502,
\* another exception 500; the success flag of the answer is not looked at
clear_remove_agent_rules(p) ==
    /\ preq[p].pc = "remove_agent_rules"
    /\ \E outcome \in RemoveOutcomes :
         IF outcome \in {"success", "refused"}
         THEN /\ rules' = IF outcome = "success"
                          THEN remove_agent_rules(rules, preq[p].tenant) ELSE rules
              /\ preq' = [preq EXCEPT ![p] =
                            [@ EXCEPT !.pc = "delete_all_policy_records", !.remote = outcome]]
         ELSE /\ preq' = [preq EXCEPT ![p] =
                            Finish([@ EXCEPT !.remote = outcome],
                                   IF outcome = "Exception" THEN 500 ELSE 502)]
              /\ UNCHANGED rules
    /\ UNCHANGED <<policies, payloads>>
    /\ UNCHANGED <<enforceVars, serviceVars>>

\* clear_all_policies: delete_all_policy_records
clear_delete_all(p) ==
    /\ preq[p].pc = "delete_all_policy_records"
    /\ policies' = delete_all_policy_records(policies, preq[p].tenant)
    /\ preq' = [preq EXCEPT ![p].pc = "delete_tenant_collection"]
    /\ UNCHANGED <<payloads, rules>>
    /\ UNCHANGED <<enforceVars, serviceVars>>

\* clear_all_policies: delete_tenant_collection, best effort; the
\* PolicyClearResponse with success=True
clear_drop_collection(p) ==
    /\ preq[p].pc = "delete_tenant_collection"
    /\ \E outcome \in {"ok", "raise"} :
         payloads' = IF outcome = "ok"
                     THEN delete_tenant_collection(payloads, preq[p].tenant)
                     ELSE payloads
    /\ preq' = [preq EXCEPT ![p] = Finish(@, 200)]
    /\ UNCHANGED <<policies, rules>>
    /\ UNCHANGED <<enforceVars, serviceVars>>

\* one step of policy request p
policy_step(p) ==
    \/ policy_begin(p)
    \/ create_policy_record_select(p)
    \/ create_policy_record_write(p)
    \/ create_persist_anchor_payload(p)
    \/ create_compensate(p)
    \/ update_fetch(p)
    \/ update_policy_record_select(p)
    \/ update_policy_record_write(p)
    \/ update_persist_anchor_payload(p)
    \/ delete_fetch(p)
    \/ delete_remove_policy(p)
    \/ delete_record(p)
    \/ delete_payload(p)
    \/ clear_remove_agent_rules(p)
    \/ clear_delete_all(p)
    \/ clear_drop_collection(p)

\* the requests to /policies alone
NextPolicy == \E p \in PolicyRequests : policy_step(p)

SpecPolicy == InitStore({"up"}) /\ [][NextPolicy]_vars

\* the requests to /policies while time passes (one advance of the clock;
\* the policy table only compares instants)
NextPolicyClock == NextPolicy \/ (Tick /\ now' = IdleTimeout + 1)

SpecPolicyClock == InitStore({"up"}) /\ [][NextPolicyClock]_vars

(***************************************************************************)
(* encode_slot, statement by statement, run by several threads.            *)
(***************************************************************************)
\* the key of the matrix of the slot a thread encodes for
KeyOfSlot(slot_name) ==
    cache_key(slot_name, MODEL_DIM, SLOT_DIM, projection_seeds[slot_name])

\* encode_slot(text, slot_name) is called
encode_slot_call(t) ==
    /\ encoding[t].pc = "idle"
    /\ \E text \in EncodeTexts, slot \in EncodeSlots :
         encoding' = [encoding EXCEPT ![t] =
                        [IdleEncoder EXCEPT !.pc = "encode_text_cached",
                                            !.text = text,
                                            !.slot_name = slot]]
    /\ UNCHANGED <<embeddingCache, recency, projectionMatrices>>
    /\ UNCHANGED <<enforceVars, policyVars, loggerVars, listing>>

\* encode_text_cached: the lookup of lru_cache.  A hit returns the cached
\* embedding and makes the entry the most recently used; a miss goes on to
\* call the function.
encode_text_cached_lookup(t) ==
    /\ encoding[t].pc = "encode_text_cached"
    /\ LET i == lru_index(embeddingCache, encoding[t].text)
       IN  IF i # 0
           THEN /\ embeddingCache' = lru_hit(embeddingCache, i)
                /\ recency' = Used(recency, encoding[t].text)
                /\ encoding' = [encoding EXCEPT ![t].pc = "get_projection_matrix",
                                                ![t].hit = TRUE,
                                                ![t].embedding = embeddingCache[i].embedding]
           ELSE /\ encoding' = [encoding EXCEPT ![t].pc = "model_encode"]
                /\ UNCHANGED <<embeddingCache, recency>>
    /\ UNCHANGED projectionMatrices
    /\ UNCHANGED <<enforceVars, policyVars, loggerVars, listing>>

\* encode_text_cached after a miss: model.encode(text), then lru_cache
\* stores the result unless the key has been stored in the meantime
encode_text_cached_store(t) ==
    /\ encoding[t].pc = "model_encode"
    /\ LET embedding == encode_text_cached(encoding[t].text)
       IN  /\ embeddingCache' = lru_store(embeddingCache, encoding[t].text, embedding)
           /\ recency' = IF lru_index(embeddingCache, encoding[t].text) # 0
                         THEN recency
                         ELSE Used(recency, encoding[t].text)
           /\ encoding' = [encoding EXCEPT ![t].pc = "get_projection_matrix",
                                           ![t].embedding = embedding]
    /\ UNCHANGED projectionMatrices
    /\ UNCHANGED <<enforceVars, policyVars, loggerVars, listing>>

\* get_projection_matrix: if cache_key not in _PROJECTION_MATRICES
get_projection_matrix_check(t) ==
    /\ encoding[t].pc = "get_projection_matrix"
    /\ encoding' = [encoding EXCEPT ![t].pc =
                      IF KeyOfSlot(encoding[t].slot_name) \in DOMAIN projectionMatrices
                      THEN "project" ELSE "create_matrix"]
    /\ UNCHANGED <<embeddingCache, recency, projectionMatrices>>
    /\ UNCHANGED <<enforceVars, policyVars, loggerVars, listing>>

\* a get_projection_matrix whose generator is not seeded afresh: what it
\* generates depends on who draws from it
get_projection_matrix_create_unseeded(t) ==
    /\ encoding[t].pc = "create_matrix"
    /\ projectionMatrices' =
          PutRow(projectionMatrices, KeyOfSlot(encoding[t].slot_name),
                 create_sparse_projection_matrix(
                     MODEL_DIM, SLOT_DIM,
                     42 + ((projection_seeds[encoding[t].slot_name] + t) % 4)))
    /\ encoding' = [encoding EXCEPT ![t].pc = "project", ![t].generated = TRUE]
    /\ UNCHANGED <<embeddingCache, recency>>
    /\ UNCHANGED <<enforceVars, policyVars, loggerVars, listing>>

\* get_projection_matrix: generate the matrix and store it under the key,
\* whether or not another thread has stored one since the check
get_projection_matrix_create(t) ==
    /\ encoding[t].pc = "create_matrix"
    /\ projectionMatrices' =
          PutRow(projectionMatrices, KeyOfSlot(encoding[t].slot_name),
                 create_sparse_projection_matrix(
                     MODEL_DIM, SLOT_DIM, projection_seeds[encoding[t].slot_name]))
    /\ encoding' = [encoding EXCEPT ![t].pc = "project", ![t].generated = TRUE]
    /\ UNCHANGED <<embeddingCache, recency>>
    /\ UNCHANGED <<enforceVars, policyVars, loggerVars, listing>>

\* get_projection_matrix returns _PROJECTION_MATRICES[cache_key];
\* project_and_normalize projects, normalizes and returns
project_and_normalize_return(t) ==
    /\ encoding[t].pc = "project"
    /\ LET projection == projectionMatrices[KeyOfSlot(encoding[t].slot_name)]
           projected == project(projection, encoding[t].embedding)
       IN  encoding' = [encoding EXCEPT ![t].pc = "done",
                                        ![t].projection = projection,
                                        ![t].projected = projected,
                                        ![t].result = normalize(projected)]
    /\ UNCHANGED <<embeddingCache, recency, projectionMatrices>>
    /\ UNCHANGED <<enforceVars, policyVars, loggerVars, listing>>

\* the caller has the vector; the thread is free for the next call
encode_slot_return(t) ==
    /\ encoding[t].pc = "done"
    /\ encoding' = [encoding EXCEPT ![t] = IdleEncoder]
    /\ UNCHANGED <<embeddingCache, recency, projectionMatrices>>
    /\ UNCHANGED <<enforceVars, policyVars, loggerVars, listing>>

\* one step of a thread inside encode_slot
encode_slot_step(t) ==
    \/ encode_slot_call(t)
    \/ encode_text_cached_lookup(t)
    \/ encode_text_cached_store(t)
    \/ get_projection_matrix_check(t)
    \/ get_projection_matrix_create(t)
    \/ project_and_normalize_return(t)
    \/ encode_slot_return(t)

NextEncoder == \E t \in Encoders : encode_slot_step(t)

\* the threads that encode, on a fresh process
SpecEncoder == InitStore({"up"}) /\ [][NextEncoder]_vars

(***************************************************************************)
(* The canonicalization logger: log_prediction, flush, _flush_loop, stop.  *)
(***************************************************************************)
\* log_prediction inside "async with self.buffer_lock", which task t has
\* just entered: append the line; a buffer that is full now is flushed by
\* "await self.flush()", whose own "async with self.buffer_lock" finds the
\* lock locked and waits; else the lock is released and the call returns.
\* k is the number of this call among the calls of t.
log_prediction_locked(t, k) ==
    /\ buffer' = Append(buffer, <<t, k>>)
    /\ IF Len(buffer) + 1 >= BufferSize
       THEN /\ buffer_lock' = Enqueue(Taken(buffer_lock, t), t)
            /\ task' = [task EXCEPT ![t] = [pc |-> "flush_wait",
                                            caller |-> "log_prediction",
                                            predictions |-> k]]
       ELSE /\ buffer_lock' = Released(Taken(buffer_lock, t))
            /\ task' = [task EXCEPT ![t] = [pc |-> "idle", caller |-> "",
                                            predictions |-> k]]
    /\ UNCHANGED logfile

\* flush inside "async with self.buffer_lock", which task t has just
\* entered: nothing to do for an empty buffer; else the lines go to the file
\* and the buffer is cleared, or the write raises, which is logged and
\* leaves the buffer; the lock is released and t goes on at pc `after`
flush_locked(t, after) ==
    /\ \E outcome \in {"ok", "raise"} :
         IF buffer # << >> /\ outcome = "ok"
         THEN logfile' = logfile \o buffer /\ buffer' = << >>
         ELSE UNCHANGED <<logfile, buffer>>
    /\ buffer_lock' = Released(Taken(buffer_lock, t))
    /\ task' = [task EXCEPT ![t].pc = after, ![t].caller = ""]

\* where the caller of flush goes on when flush returns
AfterFlush(caller) ==
    CASE caller = "_flush_loop" -> "sleep"
      [] caller = "stop" -> "stopped"
      [] caller = "log_prediction" -> "idle"

\* flush is called by task t on behalf of `caller`: it runs at once when the
\* lock is free, else t joins the waiters
flush_called(t, caller) ==
    IF CanAcquire(buffer_lock)
    THEN flush_locked(t, AfterFlush(caller))
    ELSE /\ buffer_lock' = Enqueue(buffer_lock, t)
         /\ task' = [task EXCEPT ![t].pc = "flush_wait", ![t].caller = caller]
         /\ UNCHANGED <<buffer, logfile>>

\* log_prediction: the call, which enters the lock at once when it is free
\* and joins the waiters else; the waiter that gets the lock; and the flush
\* of the full buffer that gets the lock
log_prediction(t) ==
    /\ t \in LogTasks
    /\ CASE task[t].pc = "idle" ->
              /\ task[t].predictions < MaxPredictions
              /\ IF CanAcquire(buffer_lock)
                 THEN log_prediction_locked(t, task[t].predictions + 1)
                 ELSE /\ buffer_lock' = Enqueue(buffer_lock, t)
                      /\ task' = [task EXCEPT ![t].pc = "log_prediction_wait",
                                              ![t].predictions = @ + 1]
                      /\ UNCHANGED <<buffer, logfile>>
         [] task[t].pc = "log_prediction_wait" ->
              /\ Woken(buffer_lock, t)
              /\ log_prediction_locked(t, task[t].predictions)
         [] task[t].pc = "flush_wait" ->
              /\ Woken(buffer_lock, t)
              /\ flush_locked(t, AfterFlush(task[t].caller))
    /\ UNCHANGED <<enforceVars, policyVars, encoderVars, listing>>

\* _flush_loop: the sleep is over and flush is called, or the flush that
\* waited gets the lock
flush_loop(t) ==
    /\ t = FlushTask
    /\ CASE task[t].pc = "sleep" -> flush_called(t, "_flush_loop")
         [] task[t].pc = "flush_wait" ->
              /\ Woken(buffer_lock, t)
              /\ flush_locked(t, AfterFlush(task[t].caller))
         [] OTHER -> FALSE
    /\ UNCHANGED <<enforceVars, policyVars, encoderVars, listing>>

\* stop: cancel the flush task and await it; a cancelled task that waits
\* for the lock leaves the waiters
stop_cancel(t) ==
    /\ t = StopTask
    /\ task[t].pc = "idle"
    /\ task' = [task EXCEPT ![t].pc = "stop_flush",
                            ![FlushTask].pc = "cancelled",
                            ![FlushTask].caller = ""]
    /\ buffer_lock' = [buffer_lock EXCEPT
                          !.waiters = SelectSeq(@, LAMBDA w : w # FlushTask)]
    /\ UNCHANGED <<buffer, logfile>>
    /\ UNCHANGED <<enforceVars, policyVars, encoderVars, listing>>

\* stop: the final flush is called, or the flush that waited gets the lock
stop_flush(t) ==
    /\ t = StopTask
    /\ CASE task[t].pc = "stop_flush" -> flush_called(t, "stop")
         [] task[t].pc = "flush_wait" ->
              /\ Woken(buffer_lock, t)
              /\ flush_locked(t, AfterFlush(task[t].caller))
         [] OTHER -> FALSE
    /\ UNCHANGED <<enforceVars, policyVars, encoderVars, listing>>

\* one step of a coroutine that uses the logger
logger_step(t) ==
    \/ log_prediction(t)
    \/ flush_loop(t)
    \/ stop_cancel(t)
    \/ stop_flush(t)

\* a step of a coroutine that is inside a call: the event loop runs it as
\* soon as it can go on (a timer that ran out included)
logger_resume(t) == task[t].pc # "idle" /\ logger_step(t)

NextLogger == \E t \in Tasks : logger_step(t)

\* the logger and its callers
SpecLogger == InitStore({"up"}) /\ [][NextLogger]_vars

\* the same under the event loop, which runs every coroutine that can go on
SpecLoggerLive == SpecLogger /\ \A t \in Tasks : WF_vars(logger_resume(t))

(***************************************************************************)
(* Telemetry: list_sessions (session_store.py) behind GET                  *)
(* /telemetry/sessions, which hands limit, offset and decision through and *)
(* returns total_count as it gets it.  The filters agent_id, start_time_ms *)
(* and end_time_ms are left unset.                                         *)
(***************************************************************************)
RECURSIVE OrderByLastSeenDesc(_, _)
\* ORDER BY last_seen_at DESC over the rows with the keys in S
OrderByLastSeenDesc(table, S) ==
    IF S = {} THEN << >>
    ELSE LET first == CHOOSE a \in S :
                         \A b \in S : table[a].last_seen_at >= table[b].last_seen_at
         IN  <<first>> \o OrderByLastSeenDesc(table, S \ {first})

\* LIMIT limit OFFSET offset of SQL, and seq[offset : offset + limit] of python
Slice(seq, offset, limit) ==
    SubSeq(seq, offset + 1, IF offset + limit <= Len(seq) THEN offset + limit ELSE Len(seq))

\* history[-1]["decision"] if history else None
final_decision(row) ==
    IF row.action_history = << >> THEN "None"
    ELSE row.action_history[Len(row.action_history)].decision

\* the dict list_sessions builds for a row
SessionSummary(table, a) ==
    [session_id |-> a,
     agent_id |-> a,
     call_count |-> table[a].call_count,
     created_at_ms |-> table[a].created_at * 1000,
     last_seen_at_ms |-> table[a].last_seen_at * 1000,
     final_decision |-> final_decision(table[a]),
     cumulative_drift |-> table[a].cumulative_drift]

\* list_sessions: the page of the SELECT, the COUNT(*), the loop that skips
\* the rows of the page whose final decision is not the one asked for, and
\* with a decision filter the count and the slice of what the loop kept
list_sessions(table, limit, offset, decision) ==
    LET rows == Slice(OrderByLastSeenDesc(table, DOMAIN table), offset, limit)
        total_row == Cardinality(DOMAIN table)
        summaries == [i \in 1..Len(rows) |-> SessionSummary(table, rows[i])]
        kept == SelectSeq(summaries,
                          LAMBDA s : decision = "None" \/ s.final_decision = decision)
    IN  IF decision # "None"
        THEN [sessions |-> Slice(kept, offset, limit),
              total_count |-> Len(kept),
              limit |-> limit,
              offset |-> offset]
        ELSE [sessions |-> kept,
              total_count |-> total_row,
              limit |-> limit,
              offset |-> offset]

\* GET /telemetry/sessions
query_sessions ==
    /\ \E limit \in Limits, offset \in Offsets, decision \in DecisionFilters \cup {"None"} :
         listing' = [decision |-> decision,
                     result |-> list_sessions(sessions, limit, offset, decision)]
    /\ UNCHANGED <<enforceVars, policyVars, encoderVars, loggerVars>>

\* a database file that holds the sessions of three agents
InitListing ==
    /\ sessions \in ListedTables
    /\ calls = [c \in {} |-> Null]
    /\ now = 0
    /\ ticks = 0
    /\ storeMode = "up"
    /\ req = [r \in Requests |-> IdleRequest]
    /\ cleaned = NeverCleaned
    /\ InitPolicies
    /\ InitServices

NextTelemetry == query_sessions

\* the listings of a database that holds sessions
SpecTelemetry == InitListing /\ [][NextTelemetry]_vars

(***************************************************************************)
(* Properties.                                                             *)
(***************************************************************************)
\* request r has called `step` and the call has returned
Returned(r, step) == \E i \in 1..Len(req[r].steps) : req[r].steps[i] = step

\* the requests for agent a whose call of `step` has returned
ReturnedFor(a, step) ==
    {r \in Requests : req[r].event.agent_id = a /\ Returned(r, step)}

AgentIds == {e.agent_id : e \in Events}

\* the requests for agent a that are past step 5 of the pipeline: write_call
\* has returned and the request is not waiting to initialize the baseline
PastBaseline(a) ==
    {r \in ReturnedFor(a, "write_call") : req[r].pc # "initialize_session_vector"}

RECURSIVE SumOver(_, _)
\* sum of f[r] over the finite set S
SumOver(f, S) ==
    IF S = {} THEN 0
    ELSE LET x == CHOOSE y \in S : TRUE IN f[x] + SumOver(f, S \ {x})

\* C1: once a session row has a non-null initial_vector, no step of write_call,
\* initialize_session_vector, compute_and_update_drift or update_call_decision
\* removes or changes it; a second initialize_session_vector with another
\* vector leaves the first one in place.
C1_BaselineWriteOnce ==
    [][\A a \in DOMAIN sessions :
          sessions[a].initial_vector # Null
            => /\ a \in DOMAIN sessions'
               /\ sessions'[a].initial_vector = sessions[a].initial_vector]_vars

\* a request has run initialize_session_vector with a vector other than the
\* baseline already stored, and the stored baseline is still the other one
C1_Witness ==
    \E r \in Requests :
        LET a == req[r].event.agent_id
        IN  /\ storeMode = "up"
            /\ Returned(r, "initialize_session_vector")
            /\ a \in DOMAIN sessions
            /\ sessions[a].initial_vector # Null
            /\ sessions[a].initial_vector # req[r].current_vector

\* C2: when several requests for one new agent run concurrently with distinct
\* vectors, then as soon as one of them is past step 5 of the pipeline the
\* row holds the vector of one of those requests, that baseline is never
\* overwritten, and every request runs to its response: a request that has
\* begun can always take its next step, and fails only in the encoder or the RPC.
C2_OneBaselineUnderRace ==
    /\ [](storeMode = "up" =>
            \A a \in AgentIds \ {""} :
                PastBaseline(a) # {}
                  => /\ a \in DOMAIN sessions
                     /\ \E r \in PastBaseline(a) :
                            sessions[a].initial_vector = req[r].current_vector)
    /\ [](\A r \in Requests :
            /\ req[r].pc \notin {"idle", "done", "failed"} => ENABLED enforce_v2(r)
            /\ req[r].pc = "done" => req[r].status = 200 /\ req[r].response # Null
            /\ req[r].pc = "failed" =>
                 \/ req[r].steps = << >>
                 \/ req[r].steps[Len(req[r].steps)] = "enforce")
    /\ [][\A a \in DOMAIN sessions :
            sessions[a].initial_vector # Null
              => /\ a \in DOMAIN sessions'
                 /\ sessions'[a].initial_vector = sessions[a].initial_vector]_vars

\* two requests for the same agent with distinct vectors raced: both have
\* returned a response, the row was created by one of them (the INSERT of the
\* other failed) and the baseline is the vector of the request that arrived later
C2_Witness ==
    /\ storeMode = "up"
    /\ req[1].pc = "done" /\ req[2].pc = "done"
    /\ req[1].event.agent_id = "A" /\ req[2].event.agent_id = "A"
    /\ req[1].current_vector # req[2].current_vector
    /\ "A" \in DOMAIN sessions
    /\ sessions["A"].initial_vector = req[2].current_vector

\* C3: the first enforcement for a new non-empty agent_id, with no other
\* request for that agent begun, gets drift 0 from compute_and_update_drift.
C3_FirstCallZeroDrift ==
    \A r \in Requests :
        LET a == req[r].event.agent_id
        IN  ( /\ a # ""
              /\ Returned(r, "compute_and_update_drift")
              /\ \A p \in Requests \ {r} :
                    req[p].pc = "idle" \/ req[p].event.agent_id # a )
            => req[r].drift_score = 0

\* the first request of a new agent has installed its vector as the baseline
\* and compute_and_update_drift has compared it with itself
C3_Witness ==
    \E r \in Requests :
        LET a == req[r].event.agent_id
        IN  /\ a # ""
            /\ Returned(r, "compute_and_update_drift")
            /\ \A p \in Requests \ {r} : req[p].pc = "idle"
            /\ a \in DOMAIN sessions
            /\ sessions[a].initial_vector = req[r].current_vector
            /\ sessions[a].last_vector = req[r].current_vector

\* C4 (as claimed): on a healthy store, once the write_call of N requests for
\* one agent have returned, the row exists, action_history has N entries, one
\* per request id, and call_count = N.
C4_NoLostHistoryEntry ==
    storeMode = "up" =>
        \A a \in AgentIds :
            LET W == ReturnedFor(a, "write_call")
            IN  W # {} =>
                  /\ a \in DOMAIN sessions
                  /\ sessions[a].call_count = Cardinality(W)
                  /\ Len(sessions[a].action_history) = Cardinality(W)
                  /\ \A r \in W :
                        \E i \in 1..Len(sessions[a].action_history) :
                            sessions[a].action_history[i].request_id = RequestId(r)

\* C5: the stored cumulative_drift of an agent is the sum of the drifts that
\* compute_and_update_drift has returned to the requests of that agent.
C5_CumulativeIsSumOfReturned ==
    \A a \in DOMAIN sessions :
        sessions[a].cumulative_drift
          = SumOver([r \in Requests |-> req[r].drift_score],
                    ReturnedFor(a, "compute_and_update_drift"))

\* two requests of one agent have both got their drift, one of them positive,
\* and the request holding the baseline was the last to write
C5_Witness ==
    \E r \in Requests, p \in Requests :
        LET a == req[r].event.agent_id
        IN  /\ r # p
            /\ req[p].event.agent_id = a
            /\ Returned(r, "compute_and_update_drift")
            /\ Returned(p, "compute_and_update_drift")
            /\ req[p].drift_score > 0
            /\ a \in DOMAIN sessions
            /\ sessions[a].last_vector = req[r].current_vector
            /\ sessions[a].initial_vector = req[r].current_vector

\* max(0, 1 - dot(b, c)) with the dot product taken over every component
ExpectedDrift(b, c) ==
    LET dot == SumOver([i \in 1..Len(b) |-> b[i] * c[i]], 1..Len(b))
    IN  IF One - dot > 0 THEN One - dot ELSE 0

\* C6: when compute_and_update_drift runs its UPDATE on a session whose
\* baseline b is non-null, with current vector c, it returns
\* max(0, 1 - dot(b, c)) over the full vectors of four slots, adds exactly that
\* value to cumulative_drift and sets last_vector to c; the value returned is
\* the per-call drift, not the new total.
C6_DriftFormula ==
    [][\A r \in Requests :
          (req[r].pc = "compute_and_update_drift_write" /\ req'[r].pc # req[r].pc)
            => LET a == req[r].event.agent_id
                   c == req[r].current_vector
               IN  /\ a \in DOMAIN sessions /\ a \in DOMAIN sessions'
                   /\ sessions[a].initial_vector # Null
                   /\ Len(c) = 4 * Len(get_projection_matrix("action"))
                   /\ Len(sessions[a].initial_vector) = Len(c)
                   /\ req'[r].drift_score = ExpectedDrift(sessions[a].initial_vector, c)
                   /\ sessions'[a].cumulative_drift
                        = sessions[a].cumulative_drift
                            + ExpectedDrift(sessions[a].initial_vector, c)
                   /\ sessions'[a].last_vector = c]_vars

\* a request has got a positive drift that is less than the running total
C6_Witness ==
    \E r \in Requests :
        LET a == req[r].event.agent_id
        IN  /\ Returned(r, "compute_and_update_drift")
            /\ req[r].drift_score > 0
            /\ a \in DOMAIN sessions
            /\ sessions[a].last_vector = req[r].current_vector
            /\ sessions[a].cumulative_drift > req[r].drift_score

\* the two events give the same text in the resource, data and risk slots and
\* different texts in the action slot
DiffersOnlyInAction(e1, e2) ==
    /\ SlotText(e1, "action") # SlotText(e2, "action")
    /\ \A i \in 2..Len(SlotNames) : SlotText(e1, SlotNames[i]) = SlotText(e2, SlotNames[i])

\* C7 (as claimed): after a first enforcement has set the baseline of an agent,
\* a second enforcement for that agent whose intent differs only in the action
\* slot gets drift_score > 0, cumulative_drift equals that drift_score, and
\* initial_vector is still the first vector.
C7_ActionChangeDrifts ==
    storeMode = "up" =>
        \A r1 \in Requests, r2 \in Requests :
            LET a == req[r1].event.agent_id
            IN  ( /\ r1 < r2
                  /\ a # "" /\ req[r2].event.agent_id = a
                  /\ req[r1].pc = "done"
                  /\ Returned(r2, "compute_and_update_drift")
                  /\ DiffersOnlyInAction(req[r1].event, req[r2].event)
                  /\ a \in DOMAIN sessions
                  /\ sessions[a].initial_vector = req[r1].current_vector )
                => /\ req[r2].drift_score > 0
                   /\ sessions[a].cumulative_drift = req[r2].drift_score

\* C8 (as claimed): every drift returned is >= 0, cumulative_drift is >= 0 in
\* every state, and the cumulative drift of an agent (0 when it has no
\* session) never decreases.
C8_DriftNeverDecreases ==
    /\ [](\A r \in Requests : req[r].drift_score >= 0)
    /\ [](\A a \in DOMAIN sessions : sessions[a].cumulative_drift >= 0)
    /\ [][\A a \in AgentIds :
            get_session_drift(sessions', a) >= get_session_drift(sessions, a)]_vars

\* C8 (amended): every drift returned is >= 0, cumulative_drift is >= 0 in
\* every state, and the cumulative_drift of a session row never decreases
\* as long as the row exists.
C8_DriftMonotoneWhileRowLives ==
    /\ [](\A r \in Requests : req[r].drift_score >= 0)
    /\ [](\A a \in DOMAIN sessions : sessions[a].cumulative_drift >= 0)
    /\ [][\A a \in DOMAIN sessions \cap DOMAIN sessions' :
            sessions'[a].cumulative_drift >= sessions[a].cumulative_drift]_vars

\* a request got a positive drift, which was added to the row of its agent,
\* and cleanup_expired has deleted that row since
C8_Witness ==
    \E r \in Requests :
        /\ Returned(r, "compute_and_update_drift")
        /\ req[r].drift_score > 0
        /\ req[r].event.agent_id \notin DOMAIN sessions

\* the steps of POST /enforce in the order the claim gives them; the two
\* vector steps are not taken for an empty agent_id
PipelineOrder(agent_id) ==
    IF agent_id # ""
    THEN <<"encode", "write_call", "initialize_session_vector",
           "compute_and_update_drift", "enforce", "update_call_decision", "insert_call">>
    ELSE <<"encode", "write_call", "enforce", "update_call_decision", "insert_call">>

\* C9: the steps a request has taken are always an initial part of: encode,
\* write_call, initialize_session_vector, compute_and_update_drift, the Enforce
\* RPC, update_call_decision, insert_call; the decision written by write_call
\* is "pending"; and once the RPC is issued the drift has been computed and
\* the RPC carries it.
C9_PipelineOrder ==
    \A r \in Requests :
        LET q == req[r]
            order == PipelineOrder(q.event.agent_id)
        IN  /\ Len(q.steps) <= Len(order)
            /\ \A i \in 1..Len(q.steps) : q.steps[i] = order[i]
            /\ q.pc = "write_call_write" => q.steps = <<"encode">>
            /\ q.rpc # Null =>
                 /\ q.event.agent_id # "" => Returned(r, "compute_and_update_drift")
                 /\ q.rpc[1].drift_score = q.drift_score
                 /\ q.rpc[1].request_id = RequestId(r)
            /\ \A a \in DOMAIN sessions :
                 \A i \in 1..Len(sessions[a].action_history) :
                     ( /\ sessions[a].action_history[i].request_id = RequestId(r)
                       /\ ~Returned(r, "update_call_decision") )
                     => /\ Returned(r, "encode")
                        /\ sessions[a].action_history[i].decision = "pending"

\* a request of an agent has gone through all seven steps and its RPC carried
\* a positive drift
C9_Witness ==
    \E r \in Requests :
        /\ req[r].pc = "done"
        /\ req[r].steps = PipelineOrder("A")
        /\ req[r].rpc # Null
        /\ req[r].rpc[1].drift_score > 0

\* C10: with the store out of reach (every store operation raises), a request
\* that has begun can always take its next step, it fails only in the encoder
\* or in the RPC, and when it is done its response carries the decision the
\* remote service reported and drift_score 0; nothing is stored.
C10_FailSoftStore ==
    storeMode = "down" =>
        /\ DOMAIN sessions = {} /\ DOMAIN calls = {}
        /\ \A r \in Requests :
             LET q == req[r]
             IN  /\ q.pc \notin {"idle", "done", "failed"} => ENABLED enforce_v2(r)
                 /\ q.pc = "failed" =>
                      \/ q.steps = << >> /\ q.status \in {500, 503}
                      \/ q.steps[Len(q.steps)] = "enforce" /\ q.status \in {500, 502}
                 /\ q.pc = "done" =>
                      /\ q.status = 200
                      /\ q.response # Null
                      /\ q.response[1].drift_score = 0
                      /\ q.response[1].decision =
                           ( IF q.result[1].decision_name # ""
                             THEN q.result[1].decision_name
                             ELSE IF q.result[1].decision = 1 THEN "ALLOW" ELSE "DENY" )

\* with the store out of reach a request of an agent has returned its response
C10_Witness ==
    \E r \in Requests :
        /\ storeMode = "down"
        /\ req[r].pc = "done"
        /\ req[r].event.agent_id # ""
        /\ Returned(r, "compute_and_update_drift")
        /\ req[r].response # Null

\* the response step 9 builds from the RPC result and the drift of request r
ResponseOf(r) ==
    [decision |-> ( IF req[r].result[1].decision_name # ""
                    THEN req[r].result[1].decision_name
                    ELSE IF req[r].result[1].decision = 1 THEN "ALLOW" ELSE "DENY" ),
     drift_score |-> req[r].drift_score]

\* C11: once the Enforce RPC of a request has succeeded, whatever the store
\* does, update_call_decision is entered and returns into insert_call, and
\* insert_call is entered and returns the response; the response is the one
\* built from the RPC result and the drift, whether or not either call
\* raised, and neither call changes the result or the drift.
C11_BothAttemptedFailSoft ==
    /\ [](\A r \in Requests :
            (Returned(r, "enforce") /\ req[r].pc # "failed") =>
               /\ req[r].pc \in {"update_call_decision", "update_call_decision_write",
                                 "insert_call", "done"}
               /\ req[r].pc # "done" => ENABLED enforce_v2(r)
               /\ req[r].pc = "done" =>
                    /\ Returned(r, "update_call_decision")
                    /\ Returned(r, "insert_call")
                    /\ req[r].status = 200
                    /\ req[r].response = <<ResponseOf(r)>>)
    /\ [][\A r \in Requests :
            ( /\ req[r].pc \in {"update_call_decision", "update_call_decision_write",
                                "insert_call"}
              /\ req'[r] # req[r] )
            => /\ req'[r].result = req[r].result
               /\ req'[r].drift_score = req[r].drift_score
               /\ req'[r].decision_name = req[r].decision_name
               /\ req[r].pc = "update_call_decision" =>
                    req'[r].pc \in {"update_call_decision_write", "insert_call"}
               /\ req[r].pc = "update_call_decision_write" => req'[r].pc = "insert_call"
               /\ req[r].pc = "insert_call" => req'[r].pc = "done"]_vars

\* a lone request whose update_call_decision raised (its entry is still
\* pending) and whose insert_call went through has returned its response
C11_Witness ==
    /\ storeMode = "flaky"
    /\ req[1].pc = "done" /\ req[2].pc = "idle"
    /\ req[1].event.agent_id \in DOMAIN sessions
    /\ req[1].event.agent_id # ""
    /\ \E i \in 1..Len(sessions[req[1].event.agent_id].action_history) :
          /\ sessions[req[1].event.agent_id].action_history[i].request_id = RequestId(1)
          /\ sessions[req[1].event.agent_id].action_history[i].decision = "pending"
    /\ req[1].event.id \in DOMAIN calls
    /\ req[1].response = <<calls[req[1].event.id].enforcement_result>>

\* C12 (as claimed): a request whose identity.agent_id is empty gets
\* drift_score 0, no step of it creates or changes a row of agent_sessions,
\* and with the store up it has inserted its enforce_calls row when it
\* returns.
C12_EmptyAgentNoSessionMutation ==
    /\ [](\A r \in Requests :
            (req[r].pc # "idle" /\ req[r].event.agent_id = "") =>
               /\ req[r].drift_score = 0
               /\ (storeMode = "up" /\ req[r].pc = "done") =>
                    /\ req[r].response[1].drift_score = 0
                    /\ req[r].event.id \in DOMAIN calls
                    /\ calls[req[r].event.id].agent_id = "")
    /\ [][\A r \in Requests :
            ( /\ req[r].pc # "idle"
              /\ req[r].event.agent_id = ""
              /\ req'[r] # req[r] )
            => sessions' = sessions]_vars

\* no other request for the agent of r is or was in flight: every other
\* request has not begun, was refused before step 4, or is for another agent
RanAlone(r) ==
    \A p \in Requests \ {r} :
        \/ req[p].pc = "idle"
        \/ req[p].pc = "failed" /\ req[p].steps = << >>
        \/ req[p].event.agent_id # req[r].event.agent_id

\* C13: with the store up, when a request for a non-empty agent_id has
\* returned its response and no other request for that agent was in flight,
\* the history of the agent is the history from before the request plus
\* exactly one entry, which carries the request_id of the request and the
\* decision of the response (not "pending"), and enforce_calls holds a row
\* whose call_id is the id of the event.
C13_HistoryMatchesResponse ==
    \A r \in Requests :
        LET a == req[r].event.agent_id
            before == WarmRow.action_history
        IN  (req[r].pc = "done" /\ a # "" /\ RanAlone(r)) =>
               /\ a \in DOMAIN sessions
               /\ Len(sessions[a].action_history) = Len(before) + 1
               /\ SubSeq(sessions[a].action_history, 1, Len(before)) = before
               /\ sessions[a].action_history[Len(before) + 1].request_id = RequestId(r)
               /\ sessions[a].action_history[Len(before) + 1].decision
                    = req[r].response[1].decision
               /\ req[r].response[1].decision # "pending"
               /\ req[r].event.id \in DOMAIN calls
               /\ calls[req[r].event.id].call_id = req[r].event.id

\* a request for agent "A" has returned a decision named by the remote
\* service, on a session that already had a history
C13_Witness ==
    \E r \in Requests :
        /\ req[r].pc = "done"
        /\ req[r].event.agent_id = "A"
        /\ RanAlone(r)
        /\ req[r].response[1].decision = "STEP_UP"
        /\ Len(sessions["A"].action_history) = 3
        /\ sessions["A"].action_history[3].decision = "STEP_UP"
        /\ req[r].event.id \in DOMAIN calls

\* the arguments enforce_v2 hands to insert_call, as the row they describe,
\* read after the call has returned
InsertCallArgs(q) ==
    [call_id |-> q.event.id,
     agent_id |-> q.event.agent_id,
     ts_ms |-> q.event.ts * 1000,
     decision |-> q.decision_name,
     op |-> q.event.op,
     t |-> q.event.t,
     enforcement_result |-> q.response[1],
     intent_event |-> q.event,
     is_dry_run |-> IF q.dry_run THEN 1 ELSE 0]

\* C14: enforce_calls holds one row per call_id, stored under its own
\* call_id; with the store up every insert_call leaves under its call_id
\* exactly the row of its arguments, replacing what was there, adds no other
\* key and changes no other row; an insert_call whose row is already stored
\* leaves the table as it was.
C14_InsertCallUpsert ==
    /\ [](\A k \in DOMAIN calls : calls[k].call_id = k)
    /\ [][\A r \in Requests :
            (storeMode = "up" /\ req[r].pc = "insert_call" /\ req'[r].pc = "done") =>
               LET row == InsertCallArgs(req'[r])
               IN  /\ DOMAIN calls' = DOMAIN calls \cup {row.call_id}
                   /\ calls'[row.call_id] = row
                   /\ \A k \in DOMAIN calls \ {row.call_id} : calls'[k] = calls[k]
                   /\ (row.call_id \in DOMAIN calls /\ calls[row.call_id] = row)
                        => calls' = calls]_vars

\* two requests have called insert_call with the same call_id and different
\* payloads; one row is stored
C14_Witness ==
    /\ storeMode = "up"
    /\ req[1].pc = "done" /\ req[2].pc = "done"
    /\ req[1].event.id = req[2].event.id
    /\ InsertCallArgs(req[1]) # InsertCallArgs(req[2])
    /\ DOMAIN calls = {req[1].event.id}
    /\ calls[req[1].event.id] = InsertCallArgs(req[1])

\* C15 (as claimed): with the store up, the write of write_call on an agent
\* without a row creates the row with call_count 1, created_at equal to
\* last_seen_at and the entry of the call as its history; on an agent with a
\* row it appends exactly the entry of the call to the history, adds one to
\* call_count, and leaves initial_vector and cumulative_drift as they were.
C15_WriteCallEffect ==
    [][\A r \in Requests :
          (req[r].pc = "write_call_write" /\ req'[r].pc # req[r].pc) =>
             LET a == req[r].event.agent_id
             IN  /\ a \in DOMAIN sessions'
                 /\ a \notin DOMAIN sessions =>
                      /\ sessions'[a].call_count = 1
                      /\ sessions'[a].created_at = sessions'[a].last_seen_at
                      /\ Len(sessions'[a].action_history) = 1
                      /\ sessions'[a].action_history[1].request_id = RequestId(r)
                 /\ a \in DOMAIN sessions =>
                      /\ Len(sessions'[a].action_history)
                           = Len(sessions[a].action_history) + 1
                      /\ SubSeq(sessions'[a].action_history, 1,
                                Len(sessions[a].action_history))
                           = sessions[a].action_history
                      /\ sessions'[a].action_history[Len(sessions'[a].action_history)].request_id
                           = RequestId(r)
                      /\ sessions'[a].call_count = sessions[a].call_count + 1
                      /\ sessions'[a].initial_vector = sessions[a].initial_vector
                      /\ sessions'[a].cumulative_drift = sessions[a].cumulative_drift]_vars

\* C16: when compute_and_update_drift is entered for an agent that has no
\* session row, or whose initial_vector is null, it returns 0 as the drift
\* of the call at once and leaves agent_sessions as it was: cumulative_drift,
\* last_vector and last_seen_at keep their values.
C16_NoBaselineNoMutation ==
    [][\A r \in Requests :
          LET a == req[r].event.agent_id
          IN  ( /\ req[r].pc = "compute_and_update_drift"
                /\ req'[r] # req[r]
                /\ \/ a \notin DOMAIN sessions
                   \/ sessions[a].initial_vector = Null )
              => /\ req'[r].pc = "enforce"
                 /\ req'[r].drift_score = 0
                 /\ sessions' = sessions]_vars

\* compute_and_update_drift has returned 0 for an agent whose row has no
\* baseline; the row is as write_call left it
C16_Witness ==
    \E r \in Requests :
        LET a == req[r].event.agent_id
        IN  /\ Returned(r, "compute_and_update_drift")
            /\ req[r].drift_score = 0
            /\ a \in DOMAIN sessions
            /\ sessions[a].initial_vector = Null
            /\ sessions[a].last_vector = Null
            /\ sessions[a].cumulative_drift = 0
            /\ sessions[a].last_seen_at = sessions[a].created_at

\* the history with the decision of its last entry for request_id set to d;
\* the history itself when no entry matches
LastMatchRewritten(h, request_id, d) ==
    LET hits == {i \in 1..Len(h) : h[i].request_id = request_id}
    IN  IF hits = {} THEN h
        ELSE LET k == CHOOSE i \in hits : \A j \in hits : j <= i
             IN  [i \in 1..Len(h) |->
                    IF i = k THEN [h[i] EXCEPT !.decision = d] ELSE h[i]]

\* C17 (as claimed): the write of update_call_decision(agent, request_id, d)
\* leaves the history of the agent as it was except for the decision of the
\* last entry whose request_id matches, which becomes d; the length of the
\* history does not change, and without a matching entry or without a row
\* nothing changes.
C17_UpdateRewritesOneEntry ==
    [][\A r \in Requests :
          LET a == req[r].event.agent_id
          IN  /\ (req[r].pc = "update_call_decision" /\ req'[r] # req[r])
                   => sessions' = sessions
              /\ (req[r].pc = "update_call_decision_write" /\ req'[r] # req[r]) =>
                   /\ DOMAIN sessions' = DOMAIN sessions
                   /\ a \in DOMAIN sessions =>
                        /\ Len(sessions'[a].action_history)
                             = Len(sessions[a].action_history)
                        /\ sessions'[a].action_history
                             = LastMatchRewritten(sessions[a].action_history,
                                                  RequestId(r), req[r].decision_name)]_vars

\* C18: the decision of the response is the name the remote service gave
\* when it gave one, else ALLOW for code 1 and DENY for any other code; with
\* the store up the UPDATE of update_call_decision writes that value into
\* the entry of the request (when the history it writes holds the entry),
\* and insert_call writes it into the enforce_calls row and the stored
\* enforcement result.
C18_DecisionEverywhere ==
    /\ [](\A r \in Requests :
            req[r].pc = "done" =>
               /\ req[r].response[1].decision = ResponseOf(r).decision
               /\ req[r].result[1].decision_name = ""
                    => req[r].response[1].decision
                         = (IF req[r].result[1].decision = 1 THEN "ALLOW" ELSE "DENY"))
    /\ [][\A r \in Requests :
            LET a == req[r].event.agent_id
            IN  /\ ( /\ storeMode = "up"
                     /\ req[r].pc = "update_call_decision_write"
                     /\ req'[r] # req[r]
                     /\ a \in DOMAIN sessions )
                   => \A i \in 1..Len(sessions'[a].action_history) :
                         sessions'[a].action_history[i].request_id = RequestId(r)
                           => sessions'[a].action_history[i].decision
                                = ResponseOf(r).decision
                /\ ( /\ storeMode = "up"
                     /\ req[r].pc = "insert_call"
                     /\ req'[r] # req[r] )
                   => /\ calls'[req[r].event.id].decision = ResponseOf(r).decision
                      /\ calls'[req[r].event.id].enforcement_result.decision
                           = ResponseOf(r).decision
                      /\ req'[r].response[1].decision = ResponseOf(r).decision]_vars

\* a request answered with a
\* code other than 1 and no name has returned DENY, and DENY is in its
\* history entry and in its enforce_calls row
C18_Witness ==
    \E r \in Requests :
        LET a == req[r].event.agent_id
        IN  /\ req[r].pc = "done"
            /\ req[r].result[1].decision = 0
            /\ req[r].response[1].decision = "DENY"
            /\ a \in DOMAIN sessions
            /\ \E i \in 1..Len(sessions[a].action_history) :
                  /\ sessions[a].action_history[i].request_id = RequestId(r)
                  /\ sessions[a].action_history[i].decision = "DENY"
            /\ req[r].event.id \in DOMAIN calls
            /\ calls[req[r].event.id].decision = "DENY"

\* the key of the policy a request is about
KeyOf(q) == <<q.tenant, q.policy_id>>

\* policy request p takes the step from pc value `from` to the end of the request
Ends(p, from) == preq[p].pc = from /\ preq'[p].pc = "done"

C20_DeleteEmptiesAllStores ==
    [][\A p \in PolicyRequests :
          ( /\ preq[p].op = "delete_policy"
            /\ ~preq'[p].overlapped
            /\ preq[p].pc # "done" /\ preq'[p].pc = "done"
            /\ preq'[p].status = 200 )
          => /\ preq[p].pc = "delete_policy_payload"
             /\ KeyOf(preq[p]) \notin rules'
             /\ KeyOf(preq[p]) \notin DOMAIN policies'
             /\ KeyOf(preq[p]) \notin DOMAIN payloads']_vars

\* a policy was created, with row, payload and rules, and a delete of it has
\* reported success; the three stores are empty for it
C20_Witness ==
    \E p1 \in PolicyRequests, p2 \in PolicyRequests :
        /\ p1 < p2
        /\ \A o \in PolicyRequests : o \notin {p1, p2} => preq[o].pc = "idle"
        /\ preq[p1].op = "create_policy" /\ preq[p1].pc = "done" /\ preq[p1].status = 201
        /\ preq[p2].op = "delete_policy" /\ preq[p2].pc = "done" /\ preq[p2].status = 200
        /\ ~preq[p1].overlapped /\ ~preq[p2].overlapped
        /\ KeyOf(preq[p1]) = KeyOf(preq[p2])
        /\ KeyOf(preq[p2]) \notin rules
        /\ KeyOf(preq[p2]) \notin DOMAIN policies
        /\ KeyOf(preq[p2]) \notin DOMAIN payloads

\* the RPC of request p returns in this step
RemoteReturns(p, from) == preq[p].pc = from /\ preq[p].remote = "none" /\ preq'[p].remote # "none"

\* C21 as stated: when the RemovePolicy call of a policy delete raises or
\* reports success=false, the delete ends with 502 and no local state has
\* changed: the row and the payload are as they were.
C21_RemoteFailureIs502 ==
    [][\A p \in PolicyRequests :
          (RemoteReturns(p, "remove_policy") /\ preq'[p].remote # "success")
          => /\ preq'[p].pc = "done"
             /\ preq'[p].status = 502
             /\ policies' = policies
             /\ payloads' = payloads]_vars

\* C21: when the RemovePolicy call of a policy delete raises DataPlaneError
\* or reports success=false, the delete ends with 502; when it raises
\* another exception, with 500.  In each case the delete ends there, no
\* store has changed, and the row the delete fetched is still present when
\* no other request on the policy overlapped.
C21_RemoteFailureAborts ==
    [][\A p \in PolicyRequests :
          (RemoteReturns(p, "remove_policy") /\ preq'[p].remote # "success")
          => /\ preq'[p].pc = "done"
             /\ preq'[p].status = (IF preq'[p].remote = "Exception" THEN 500 ELSE 502)
             /\ policies' = policies
             /\ payloads' = payloads
             /\ rules' = rules
             /\ ~preq'[p].overlapped => KeyOf(preq[p]) \in DOMAIN policies']_vars

\* a delete of a policy that has its row, its payload and its rules was
\* refused by the decision service and answered 502; all three are still there
C21_Witness ==
    \E p \in PolicyRequests :
        /\ preq[p].op = "delete_policy" /\ preq[p].pc = "done"
        /\ preq[p].remote = "refused" /\ preq[p].status = 502
        /\ ~preq[p].overlapped
        /\ KeyOf(preq[p]) \in DOMAIN policies
        /\ KeyOf(preq[p]) \in DOMAIN payloads
        /\ KeyOf(preq[p]) \in rules

\* C22: in a policy delete, once the remote rules and the relational row are
\* removed, the delete reports success (200) whether or not the deletion of
\* the anchor payload succeeds (stated for a delete no other request on the
\* policy overlaps).
C22_PayloadFailureNotSurfaced ==
    [][\A p \in PolicyRequests :
          ( /\ preq[p].op = "delete_policy"
            /\ ~preq'[p].overlapped
            /\ Ends(p, "delete_policy_payload") )
          => preq'[p].status = 200]_vars

\* C23: when the persistence of the anchor payload fails in a policy update
\* that no other request on the policy overlaps, an error is surfaced and the
\* relational row is the row the update found: the contents it had before
\* the request.
C23_UpdateFailureKeepsPriorRow ==
    [][\A p \in PolicyRequests :
          ( /\ preq[p].op = "update_policy"
            /\ ~preq'[p].overlapped
            /\ Ends(p, "update_persist_anchor_payload")
            /\ preq'[p].status # 200 )
          => /\ preq'[p].status >= 500
             /\ KeyOf(preq[p]) \in DOMAIN policies'
             /\ policies'[KeyOf(preq[p])] = preq[p].existing[1]]_vars

\* no policy request is in flight
PolicyQuiescent == \A p \in PolicyRequests : ~InFlight(preq[p])

\* C24: whenever every policy operation that was started has completed
\* (with success or with an error), each (tenant, id) has either both its
\* relational row and its anchor payload or neither, and a payload that is
\* present is the one built from the current contents of the row.
C24_RowAndPayloadInSync ==
    PolicyQuiescent =>
        \A k \in DOMAIN policies \cup DOMAIN payloads :
            /\ k \in DOMAIN policies
            /\ k \in DOMAIN payloads
            /\ payloads[k] = anchor_payload(policies[k])

RowsOf(table, tenant_id) == {k \in DOMAIN table : k[1] = tenant_id}

RowsKeyedByTenantAndId == \A k \in DOMAIN policies : policies[k].id = k[2]

\* scope.tenantId of every stored row is the tenant of the row
ScopeTenantIsRowTenant == \A k \in DOMAIN policies : policies[k].scope_tenant = k[1]

\* updated_at >= created_at in every stored row
UpdatedNotBeforeCreated == \A k \in DOMAIN policies : policies[k].updatedAt >= policies[k].createdAt

\* an INSERT on a key that has a row replaces nothing: the primary key
\* keeps the one row
InsertNeverReplaces ==
    [][\A p \in PolicyRequests :
          ( /\ preq[p].pc = "create_policy_record_insert"
            /\ preq'[p].pc # preq[p].pc
            /\ KeyOf(preq[p]) \in DOMAIN policies )
          => policies' = policies]_vars

\* the UPDATE of an update leaves created_at of the row as it is
UpdateKeepsCreatedAt ==
    [][\A p \in PolicyRequests :
          ( /\ preq[p].pc = "update_policy_record_update"
            /\ preq'[p].pc # preq[p].pc
            /\ KeyOf(preq[p]) \in DOMAIN policies )
          => /\ KeyOf(preq[p]) \in DOMAIN policies'
             /\ policies'[KeyOf(preq[p])].createdAt = policies[KeyOf(preq[p])].createdAt]_vars

\* C27: in every reachable state of the policy table, under any
\* interleaving of the policy requests, (tenant_id, id) is unique, every row
\* has updated_at >= created_at and scope.tenantId equal to its tenant_id,
\* and an update never changes created_at.
C27_PolicyTableInvariants ==
    /\ [](RowsKeyedByTenantAndId /\ ScopeTenantIsRowTenant /\ UpdatedNotBeforeCreated)
    /\ InsertNeverReplaces
    /\ UpdateKeepsCreatedAt

\* C28: a step that removes session rows is a cleanup_expired: it removes
\* exactly the rows with last_seen_at < now - 30 min or created_at < now -
\* 24 h, leaves every other row as it was, and returns the number of rows
\* it removed.
C28_CleanupExpiredExact ==
    [][(DOMAIN sessions' # DOMAIN sessions /\ DOMAIN sessions' \subseteq DOMAIN sessions) =>
          LET stale == {a \in DOMAIN sessions :
                           \/ sessions[a].last_seen_at < now - 1800
                           \/ sessions[a].created_at < now - 86400}
          IN  /\ DOMAIN sessions' = DOMAIN sessions \ stale
              /\ \A a \in DOMAIN sessions' : sessions'[a] = sessions[a]
              /\ cleaned'.deleted = Cardinality(stale)
              /\ cleaned'.deleted = Cardinality(DOMAIN sessions) - Cardinality(DOMAIN sessions')]_vars

\* the last cleanup_expired removed one session that was older than 24 hours
\* although it had been seen within the last 30 minutes, and left another
\* session in the table
C28_Witness ==
    /\ cleaned.deleted = 1
    /\ \E row \in cleaned.removed :
          /\ row.created_at < cleaned.at - 86400
          /\ row.last_seen_at >= cleaned.at - 1800
    /\ DOMAIN sessions # {}

\* C29: in every reachable state every session row has call_count >=
\* len(action_history), however write_call, update_call_decision and
\* cleanup_expired interleave.
C29_CallCountCoversHistory ==
    \A a \in DOMAIN sessions : sessions[a].call_count >= Len(sessions[a].action_history)

\* C30: as long as only write_call and compute_and_update_drift have
\* written to the session table (cleanup_expired has not run), every row has
\* last_seen_at >= created_at, however the calls interleave and whenever the
\* clock, which never goes back, advances.
C30_LastSeenNotBeforeCreated ==
    cleaned = NeverCleaned =>
        \A a \in DOMAIN sessions : sessions[a].last_seen_at >= sessions[a].created_at

\* C35: every drift compute_and_update_drift returns for a baseline and a
\* current vector made of four unit-norm slots lies in [0, 2] (in the units
\* of the model, in [0, 2 * One]).
C35_DriftWithinTwo ==
    \A r \in Requests :
        /\ req[r].drift_score >= 0
        /\ req[r].drift_score <= 2 * One

\* the Enforce RPC of request r has failed
RpcFailed(q) == q.pc = "failed" /\ q.steps # << >> /\ q.steps[Len(q.steps)] = "enforce"

EncodeFailed(q) == q.pc = "failed" /\ q.steps = << >>

\* C37: a request whose encoder is missing or whose encoding raises ends
\* there with an encoder error (500 for a missing encoder, 503 for a failed
\* encoding); the step leaves agent_sessions and enforce_calls as they are,
\* the request sends no RPC and takes no further step (so it inserts no
\* enforce_calls row), and no history entry carries its request id.
C37_EncodeFailureTouchesNothing ==
    /\ [][\A r \in Requests :
            /\ (req[r].pc = "idle" /\ req'[r].pc = "failed")
               => /\ req'[r].status \in {500, 503}
                  /\ req'[r].rpc = Null
                  /\ req'[r].response = Null
                  /\ sessions' = sessions
                  /\ calls' = calls
            /\ EncodeFailed(req[r]) => req'[r] = req[r]]_vars
    /\ [](\A r \in Requests :
            EncodeFailed(req[r]) =>
               /\ req[r].rpc = Null
               /\ \A a \in DOMAIN sessions :
                     \A i \in 1..Len(sessions[a].action_history) :
                        sessions[a].action_history[i].request_id # RequestId(r))

\* the encoding of a request for an agent has raised (503) after another
\* request of the same agent went through all ten steps: the row of the
\* agent holds the one entry of the other request, enforce_calls its one row
C37_Witness ==
    \E r1 \in Requests, r2 \in Requests :
        LET a == req[r1].event.agent_id
        IN  /\ req[r1].pc = "done"
            /\ EncodeFailed(req[r2]) /\ req[r2].status = 503
            /\ req[r2].event.agent_id = a
            /\ a \in DOMAIN sessions
            /\ Len(sessions[a].action_history) = 1
            /\ sessions[a].action_history[1].request_id = RequestId(r1)
            /\ DOMAIN calls = {req[r1].event.id}

\* the entries of the history of agent a in table, as (request_id, decision)
EntriesOf(table, a) ==
    IF a \in DOMAIN table
    THEN {<<table[a].action_history[i].request_id, table[a].action_history[i].decision>> :
             i \in 1..Len(table[a].action_history)}
    ELSE {}

\* C38 (as claimed): update_call_decision and write_call of two requests for
\* the same agent never undo each other: the UPDATE of update_call_decision
\* keeps every entry the history of the agent holds (an entry appended by a
\* write_call in the meantime included), and the commit of write_call keeps
\* every decision update_call_decision has written.
C38_UpdateAndWriteCallKeepEachOther ==
    [][\A r \in Requests :
          LET a == req[r].event.agent_id
          IN  /\ (req[r].pc = "update_call_decision_write"
                    /\ req'[r].pc # req[r].pc /\ a \in DOMAIN sessions)
                 => \A e \in EntriesOf(sessions, a) :
                       \E f \in EntriesOf(sessions', a) : f[1] = e[1]
              /\ (req[r].pc = "write_call_write"
                    /\ req'[r].pc # req[r].pc /\ a \in DOMAIN sessions)
                 => \A e \in EntriesOf(sessions, a) :
                       e[2] # "pending" => e \in EntriesOf(sessions', a)]_vars

\* the enforce_calls row of request q without its is_dry_run field
CallRowBut(q) ==
    [call_id |-> q.event.id,
     agent_id |-> q.event.agent_id,
     ts_ms |-> q.event.ts * 1000,
     decision |-> q.decision_name,
     op |-> q.event.op,
     t |-> q.event.t,
     enforcement_result |-> [decision |-> q.decision_name,
                             drift_score |-> q.drift_score],
     intent_event |-> q.event]

\* a row without its is_dry_run field
ButDryRun(row) == [f \in DOMAIN row \ {"is_dry_run"} |-> row[f]]

\* C40: dry_run reaches nothing but the is_dry_run field of the
\* enforce_calls row.  Before step 10 no step of a request reads or sets
\* the flag; the step that inserts the row leaves agent_sessions and the RPC
\* arguments as they are, returns the response made of the decision and the
\* drift the request had before the flag was read, and writes, when the
\* INSERT goes through, a row that is fixed by the request as it was before
\* the flag was read except for is_dry_run, which is 1 for a dry run and 0
\* otherwise.
C40_DryRunOnlyInCallRow ==
    [][\A r \in Requests :
          req'[r].pc # req[r].pc =>
             IF req[r].pc = "insert_call"
             THEN /\ sessions' = sessions
                  /\ req'[r].rpc = req[r].rpc
                  /\ req'[r].status = 200
                  /\ req'[r].response = << [decision |-> req[r].decision_name,
                                            drift_score |-> req[r].drift_score] >>
                  /\ [req'[r] EXCEPT !.dry_run = FALSE]
                       = [Return(req[r], "insert_call")
                            EXCEPT !.dry_run = FALSE,
                                   !.status = 200,
                                   !.response = req'[r].response]
                  /\ \/ calls' = calls
                     \/ /\ DOMAIN calls' = DOMAIN calls \cup {req[r].event.id}
                        /\ \A c \in DOMAIN calls \ {req[r].event.id} : calls'[c] = calls[c]
                        /\ ButDryRun(calls'[req[r].event.id]) = CallRowBut(req[r])
                        /\ calls'[req[r].event.id].is_dry_run
                             = IF req'[r].dry_run THEN 1 ELSE 0
             ELSE /\ req'[r].dry_run = req[r].dry_run
                  /\ calls' = calls]_vars

\* two requests with the same decision and the same drift have returned, one
\* a dry run and one not: the responses are equal, and the two rows of
\* enforce_calls differ in is_dry_run
C40_Witness ==
    \E r1 \in Requests, r2 \in Requests :
        /\ req[r1].pc = "done" /\ req[r2].pc = "done"
        /\ req[r1].dry_run /\ ~req[r2].dry_run
        /\ req[r1].response = req[r2].response
        /\ req[r1].response[1].decision = "DENY"
        /\ req[r1].event.id # req[r2].event.id
        /\ {req[r1].event.id, req[r2].event.id} \subseteq DOMAIN calls
        /\ calls[req[r1].event.id].is_dry_run = 1
        /\ calls[req[r2].event.id].is_dry_run = 0
        /\ calls[req[r1].event.id].decision = calls[req[r2].event.id].decision

\* the texts of the cache, least recently used first
CachedTexts == [i \in 1..Len(embeddingCache) |-> embeddingCache[i].text]

\* the last n elements of a sequence
LastOf(seq, n) == SubSeq(seq, Len(seq) - n + 1, Len(seq))

\* C31: the embedding cache never holds more than CacheMaxSize entries; it
\* holds exactly the most recently used texts (all of them while they fit),
\* in the order of their last use, so an insertion into a full cache evicts
\* the least recently used text; every entry holds the embedding the
\* embedding function gives for its text, and so does every thread that
\* got its embedding from a hit.
C31_CacheBoundedLruExact ==
    /\ Len(embeddingCache) <= CacheMaxSize
    /\ Len(embeddingCache) = IF Len(recency) <= CacheMaxSize
                             THEN Len(recency) ELSE CacheMaxSize
    /\ CachedTexts = LastOf(recency, Len(embeddingCache))
    /\ \A i \in 1..Len(embeddingCache) :
          embeddingCache[i].embedding = encode_text_cached(embeddingCache[i].text)
    /\ \A t \in Encoders :
          encoding[t].hit => encoding[t].embedding = encode_text_cached(encoding[t].text)

\* the cache is full, a text has been evicted from it, and a thread holds an
\* embedding it got from a hit on the entry that is now the most recent one
C31_Witness ==
    /\ Len(embeddingCache) = CacheMaxSize
    /\ Len(recency) > CacheMaxSize
    /\ \A i \in 1..Len(embeddingCache) : embeddingCache[i].text # Head(recency)
    /\ \E t \in Encoders :
          /\ encoding[t].hit
          /\ encoding[t].pc = "done"
          /\ encoding[t].text = embeddingCache[Len(embeddingCache)].text
          /\ encoding[t].embedding # <<0, 0, 0>>

\* C32: encoding is deterministic.  Whatever the threads do, every matrix
\* stored under the key of a slot, and every matrix a call of
\* get_projection_matrix has returned, is the matrix the seed of the slot
\* generates; and every vector encode_slot returns is the one fixed by the
\* text and the slot, whether the embedding came from the cache or not, so
\* two encodings of the same text for the same slot are equal.
C32_EncodingDeterministic ==
    /\ \A slot \in DOMAIN projection_seeds :
          KeyOfSlot(slot) \in DOMAIN projectionMatrices =>
             projectionMatrices[KeyOfSlot(slot)]
                = create_sparse_projection_matrix(MODEL_DIM, SLOT_DIM, projection_seeds[slot])
    /\ \A t \in Encoders :
          encoding[t].pc = "done" =>
             /\ encoding[t].projection
                   = create_sparse_projection_matrix(
                         MODEL_DIM, SLOT_DIM, projection_seeds[encoding[t].slot_name])
             /\ encoding[t].result = encode_slot(encoding[t].text, encoding[t].slot_name)
    /\ \A t \in Encoders, u \in Encoders :
          (/\ encoding[t].pc = "done" /\ encoding[u].pc = "done"
           /\ encoding[t].text = encoding[u].text
           /\ encoding[t].slot_name = encoding[u].slot_name)
          => encoding[t].result = encoding[u].result

\* two threads have encoded the same text for the same slot, one with a
\* cache hit and one without, and both generated the matrix of the slot
\* (their first accesses overlapped); the two vectors are the same unit
\* vector
C32_Witness ==
    \E t \in Encoders, u \in Encoders :
        /\ encoding[t].pc = "done" /\ encoding[u].pc = "done"
        /\ encoding[t].text = encoding[u].text
        /\ encoding[t].slot_name = encoding[u].slot_name
        /\ encoding[t].hit /\ ~encoding[u].hit
        /\ encoding[t].generated /\ encoding[u].generated
        /\ encoding[t].result = encoding[u].result
        /\ Norm(encoding[t].result) = UnitNorm

\* the zero vector of a slot
ZeroSlot == [i \in 1..SLOT_DIM |-> 0]

\* C33: the vector encode_slot returns has SLOT_DIM values; it has norm 1
\* (UnitNorm, to the resolution of the fixed-point numbers) whenever the
\* projected vector is not zero, and it is the zero vector, returned as it
\* was projected, when the projected vector is zero.
C33_SlotUnitNormOrZero ==
    \A t \in Encoders :
        encoding[t].pc = "done" =>
           /\ Len(encoding[t].result) = SLOT_DIM
           /\ IF encoding[t].projected = ZeroSlot
              THEN encoding[t].result = ZeroSlot
              ELSE Norm(encoding[t].result) = UnitNorm

\* one thread has returned a unit vector for a projected vector of another
\* length, the other the zero vector for a text that projects to zero
C33_Witness ==
    \E t \in Encoders, u \in Encoders :
        /\ encoding[t].pc = "done" /\ encoding[u].pc = "done"
        /\ encoding[t].projected # ZeroSlot
        /\ Norm(encoding[t].projected) # UnitNorm
        /\ Norm(encoding[t].result) = UnitNorm
        /\ encoding[u].projected = ZeroSlot
        /\ encoding[u].result = ZeroSlot

\* task t waits for buffer_lock
WaitsForLock(t) == task[t].pc \in {"flush_wait", "log_prediction_wait"}

\* C34 (as claimed): a log_prediction that has filled the buffer and called
\* flush returns, and every coroutine that waits for buffer_lock (a later
\* log_prediction, flush or stop) gets it in the end.
C34_FullBufferFlushReturns ==
    /\ \A t \in LogTasks :
          (task[t].pc = "flush_wait" /\ task[t].caller = "log_prediction")
             ~> (task[t].pc = "idle")
    /\ \A t \in Tasks : WaitsForLock(t) ~> ~WaitsForLock(t)

\* the sessions of the table whose last history entry has the decision,
\* most recently seen first
Matching(table, decision) ==
    SelectSeq(OrderByLastSeenDesc(table, DOMAIN table),
              LAMBDA a : final_decision(table[a]) = decision)

\* C39 (as claimed): a listing with a decision filter returns the sessions
\* at the positions offset .. offset + limit - 1 of the list of all sessions
\* whose last history entry has the decision, most recently seen first, and
\* total_count is the length of that list.
C39_FilteredPageOfAllMatches ==
    (listing # Null /\ listing.decision # "None") =>
        LET matching == Matching(sessions, listing.decision)
            page == Slice(matching, listing.result.offset, listing.result.limit)
        IN  /\ [i \in 1..Len(listing.result.sessions) |->
                   listing.result.sessions[i].session_id] = page
            /\ listing.result.total_count = Len(matching)

====
